---- MODULE Spec2Model ----
(***************************************************************************)
(* A model of the SentimentDelta scripts: the paginated news crawl, the    *)
(* scroll-driven news crawl, the bulk store writer and the ticker data     *)
(* pipeline.  Each program is a group of actions over its own variables;   *)
(* `prog' names the program a behaviour runs, chosen by the initial state. *)
(***************************************************************************)
EXTENDS Integers, Sequences, FiniteSets, TLC

VARIABLES
    prog,           \* which program this behaviour runs
    \* ---- paginated crawl (scrape_multiple_tickers / scrape_ticker_news)
    tickers,        \* the list of symbols given to the multi-ticker run
    max_pages,      \* the page budget given to the run
    ti,             \* 1-based position of the ticker being crawled
    cpc,            \* control point of the crawl
    page,           \* page being scraped: 0 is the base page
    content,        \* result of the fetch of the current page
    all_articles,   \* articles of the current ticker (each tagged by its page)
    results,        \* the aggregate dict: key -> list of articles
    events,         \* what the crawl of the current ticker did, in order
    crawled,        \* tickers whose crawl was started, in order
    outcome,        \* per started crawl: "ok" or "raised"
    \* ---- scroll crawl (scrape_multiple_yahoo_tickers / scrape_yahoo_finance_news)
    ytickers,       \* the list of symbols given to the multi-ticker run
    target_days,    \* target recency
    max_scrolls,    \* scroll budget
    exact_day_only, \* the per-item filter mode
    feed,           \* the kinds of item the site serves in this behaviour
    yi,             \* 1-based position of the symbol being crawled
    ypc,            \* control point of the scroll crawl
    driver,         \* the local `driver': "none", "open" or "closed"
    attempt,        \* index of the page load attempt
    scroll,         \* index of the scroll loop
    rendered,       \* driver.page_source: the items rendered so far
    target_found,   \* the flag of the scroll loop
    news_items,     \* what scrape_yahoo_finance_news returns
    all_news,       \* the aggregate dict: symbol -> news items
    ylog,           \* what the crawl of the current symbol did, in order
    ycrawled,       \* symbols whose crawl was started, in order
    youtcome,       \* per finished crawl: "ok" or "failed"
    \* ---- bulk store writer (MongoDBManager.clear_and_insert_bulk)
    store,          \* the documents of the collection, each with its _id
    data,           \* the records given to the call
    batch_size,     \* the batch size given to the call
    wpc,            \* control point of the writer
    clean_data,     \* the records with NaN replaced
    bi,             \* the loop variable i of the batch loop
    total_inserted, \* the running count
    sent,           \* the batches handed to insert_many, in order
    wlog,           \* the store operations issued by the call, in order
    werr,           \* the exception that ended the call, or "none"
    nextId,         \* the next _id the store assigns
    priorIds,       \* the _ids the collection held when the call began
    calls,          \* how many calls were begun
    firstContents,  \* <<contents>> once the first call has completed, else <<>>
    \* ---- ticker data pipeline (process_and_store_ticker_data)
    ctickers,       \* config.tickers
    ppc,            \* control point of the pipeline
    pi,             \* position in the loop it is in
    td_keys,        \* the keys of ticker_data, in insertion order
    ticker_data,    \* ticker -> "None", "empty" (empty frame) or "frame"
    successful,     \* results['successful']
    failed,         \* results['failed']
    details,        \* the keys of results['details']
    coll,           \* ticker -> what its collection holds
    \* ---- parse_relative_time_to_date
    time_text,      \* the argument
    label,          \* how the argument was written: count, unit, spacing
    now,            \* datetime.now(), in minutes
    tpc,            \* control point
    parsed,         \* the value returned
    \* ---- extract_all_news / extract_news_item
    soup,           \* the items of the stream container
    xtarget,        \* target_days, NoTarget for None
    xexact,         \* exact_day_only
    xnow,           \* the clock, in minutes
    xi,             \* position of the loop over the items
    xout,           \* news_items
    xlog,           \* per item: what was decided about it
    xpc,            \* control point
    \* ---- process_ticker_data (the normalizer)
    downloaded,     \* <<frame>> as yf.download gave it, <<>> when it raised
    stock_df,       \* <<frame>> being processed, <<>> before the download
    npc,            \* control point
    nres,           \* "pending", "None", "frame" or "raised"
    \* ---- main and run_scraping_pipeline
    pipeline,       \* "main" or "scraping"
    work,           \* the steps of the try block still to run
    anyFailed,      \* results['failed'] is not empty
    mpc,            \* control point
    conn,           \* the connection: "none", "open" or "closed"
    mlog,           \* connects, work steps and disconnects, in order
    mret,           \* the exit: "pending", a return code, or "raised"
    \* ---- fetch_page / fetch_page_content
    max_retries,    \* the attempt budget given to the call
    fattempt,       \* the loop variable `attempt'
    fpc,            \* control point
    flog,           \* the responses received so far, in order
    fret,           \* "pending", "content", "None" or "raised"
    \* ---- run_scraping_pipeline: the loop that stores the articles
    scraped_data,   \* the items of the dict: <<[ticker, articles]>>
    spos,           \* position of the loop over the tickers
    apos,           \* articles of the current ticker stored so far
    news,           \* the 'news' collection: the ticker of each document
    total_articles, \* the running count
    gfail,          \* position of the ticker whose storing raised, or 0
    gpc,            \* control point
    gret,           \* the return code, -1 while pending
    \* ---- standardize_column_names
    columns,        \* df.columns as given: [multi, cols]
    kpc,            \* control point
    kout            \* df.columns of the frame returned

crawlVars == <<tickers, max_pages, ti, cpc, page, content, all_articles,
               results, events, crawled, outcome>>

scrollVars == <<ytickers, target_days, max_scrolls, exact_day_only, feed, yi,
                ypc, driver, attempt, scroll, rendered, target_found,
                news_items, all_news, ylog, ycrawled, youtcome>>

storeVars == <<store, data, batch_size, wpc, clean_data, bi, total_inserted,
               sent, wlog, werr, nextId, priorIds, calls, firstContents>>

pipeVars == <<ctickers, ppc, pi, td_keys, ticker_data, successful, failed,
              details, coll>>

parseVars == <<time_text, label, now, tpc, parsed>>

\* the variables of the programs added after the pipeline
extractVars == <<soup, xtarget, xexact, xnow, xi, xout, xlog, xpc>>

normVars == <<downloaded, stock_df, npc, nres>>

mainVars == <<pipeline, work, anyFailed, mpc, conn, mlog, mret>>

fetchVars == <<max_retries, fattempt, fpc, flog, fret>>

\* the variables of the programs added last
newsVars == <<scraped_data, spos, apos, news, total_articles, gfail, gpc, gret>>

colVars == <<columns, kpc, kout>>

extraVars == <<fetchVars, newsVars, colVars>>

otherVars == <<parseVars, extractVars, normVars, mainVars, extraVars>>

vars == <<prog, crawlVars, scrollVars, storeVars, pipeVars, otherVars>>

(***************************************************************************)
(* Bounds of the model.                                                    *)
(***************************************************************************)
MaxTickers == 2
MaxPages == 3
MaxYield == 1
MaxScrolls == 2
MaxItems == 2
MaxAge == 2
MaxTarget == 2
MaxRecords == 5
MaxBatch == 2
MaxPrior == 2
MaxCalls == 2
MaxCount == 2
MaxStream == 2
MaxBars == 2
MaxWork == 4
FirstDay == 20

(***************************************************************************)
(* Helpers: a Python dict as a function with a growing domain.             *)
(***************************************************************************)
EmptyDict == [k \in {} |-> <<>>]

DictPut(d, k, v) == [x \in (DOMAIN d) \cup {k} |-> IF x = k THEN v ELSE d[x]]

RECURSIVE Repeat(_, _)
Repeat(x, n) == IF n = 0 THEN <<>> ELSE <<x>> \o Repeat(x, n - 1)

SeqsUpTo(S, n) == UNION {[1..k -> S] : k \in 1..n}

(***************************************************************************)
(* Paginated crawl.                                                        *)
(***************************************************************************)
Symbols == {"aapl", "AAPL", "msft"}

\* str.upper() on the symbols of the model
Upper(t) == CASE t = "aapl" -> "AAPL"
              [] t = "msft" -> "MSFT"
              [] OTHER -> t

InitCrawl ==
    /\ tickers \in SeqsUpTo(Symbols, MaxTickers)
    /\ max_pages \in 1..MaxPages
    /\ ti = 1
    /\ cpc = "next_ticker"
    /\ page = 0
    /\ content = "unset"
    /\ all_articles = <<>>
    /\ results = EmptyDict
    /\ events = <<>>
    /\ crawled = <<>>
    /\ outcome = <<>>

\* what a page can yield: no article, or a page of MaxYield articles
PageYields == {0, MaxYield}

Ev(kind, pg, n) == [kind |-> kind, page |-> pg, n |-> n]

\* the key under which scrape_multiple_tickers stores a ticker's articles
KeyOf(t) == Upper(t)

StopsAfterNever(pg, n) == FALSE

\* `if not articles: break' inside the loop over the numbered pages; the base
\* page is scraped before the loop and never ends the crawl
StopsAfter(pg, n) == pg >= 1 /\ n = 0

\* range(1, max_pages + 1) is exhausted after page pg
LastPage(pg, mp) == pg >= mp

OnTickerErrorDrop(res, t) == res

\* the except branch of scrape_multiple_tickers
OnTickerError(res, t) == DictPut(res, KeyOf(t), <<>>)

\* for i, ticker in enumerate(tickers, 1): the call of scrape_ticker_news
NextTicker ==
    /\ prog = "paginated"
    /\ cpc = "next_ticker"
    /\ ti <= Len(tickers)
    /\ crawled' = Append(crawled, tickers[ti])
    /\ events' = <<>>
    /\ all_articles' = <<>>
    /\ page' = 0
    /\ content' = "unset"
    /\ cpc' = "fetch"
    /\ UNCHANGED <<scrollVars, storeVars, pipeVars, otherVars>>
    /\ UNCHANGED <<prog, tickers, max_pages, ti, results, outcome>>

\* scrape_ticker_page: content = fetch_page_content(session, url)
FetchPage ==
    /\ prog = "paginated"
    /\ cpc = "fetch"
    /\ events' = Append(events, Ev("req", page, 0))
    /\ content' \in {"html", "none"}
    /\ cpc' = "extract"
    /\ UNCHANGED <<scrollVars, storeVars, pipeVars, otherVars>>
    /\ UNCHANGED <<prog, tickers, max_pages, ti, page, all_articles, results,
                   crawled, outcome>>

\* scrape_ticker_page from `if not content' on, then the caller's use of the
\* returned list: extend, break, delay, next page
ExtractPage ==
    /\ prog = "paginated"
    /\ cpc = "extract"
    /\ \E n \in PageYields :
        /\ content = "none" => n = 0
        /\ IF StopsAfter(page, n)
           THEN /\ events' = Append(events, Ev("ext", page, n))
                /\ cpc' = "finish"
                /\ UNCHANGED <<all_articles, page>>
           ELSE /\ all_articles' = all_articles \o Repeat(page, n)
                /\ events' = IF page >= 1
                             THEN events \o <<Ev("ext", page, n), Ev("delay", page, 0)>>
                             ELSE Append(events, Ev("ext", page, n))
                /\ IF LastPage(page, max_pages)
                   THEN cpc' = "finish" /\ page' = page
                   ELSE cpc' = "fetch" /\ page' = page + 1
    /\ content' = "unset"
    /\ UNCHANGED <<scrollVars, storeVars, pipeVars, otherVars>>
    /\ UNCHANGED <<prog, tickers, max_pages, ti, results, crawled, outcome>>

\* an exception other than a request error while a fetched page is parsed
ExtractRaises ==
    /\ prog = "paginated"
    /\ cpc = "extract"
    /\ content = "html"
    /\ cpc' = "raise"
    /\ UNCHANGED <<scrollVars, storeVars, pipeVars, otherVars>>
    /\ UNCHANGED <<prog, tickers, max_pages, ti, page, content, all_articles,
                   results, events, crawled, outcome>>

\* scrape_ticker_news returns: results[ticker.upper()] = articles
FinishTicker ==
    /\ prog = "paginated"
    /\ cpc = "finish"
    /\ results' = DictPut(results, KeyOf(tickers[ti]), all_articles)
    /\ outcome' = Append(outcome, "ok")
    /\ ti' = ti + 1
    /\ cpc' = "next_ticker"
    /\ UNCHANGED <<scrollVars, storeVars, pipeVars, otherVars>>
    /\ UNCHANGED <<prog, tickers, max_pages, page, content, all_articles,
                   events, crawled>>

\* except Exception: results[ticker.upper()] = []
TickerFailed ==
    /\ prog = "paginated"
    /\ cpc = "raise"
    /\ results' = OnTickerError(results, tickers[ti])
    /\ outcome' = Append(outcome, "raised")
    /\ ti' = ti + 1
    /\ cpc' = "next_ticker"
    /\ UNCHANGED <<scrollVars, storeVars, pipeVars, otherVars>>
    /\ UNCHANGED <<prog, tickers, max_pages, page, content, all_articles,
                   events, crawled>>

\* the loop over the tickers is exhausted: return results
ReturnResults ==
    /\ prog = "paginated"
    /\ cpc = "next_ticker"
    /\ ti > Len(tickers)
    /\ cpc' = "returned"
    /\ UNCHANGED <<scrollVars, storeVars, pipeVars, otherVars>>
    /\ UNCHANGED <<prog, tickers, max_pages, ti, page, content, all_articles,
                   results, events, crawled, outcome>>

CrawlNext ==
    \/ NextTicker
    \/ FetchPage
    \/ ExtractPage
    \/ ExtractRaises
    \/ FinishTicker
    \/ TickerFailed
    \/ ReturnResults

(***************************************************************************)
(* Scroll crawl.                                                           *)
(***************************************************************************)
\* an item of the stream without a publishing div
NoLabel == -1

\* the day numbers the time labels of the model carry ("<n>d ago"); 0 stands
\* for a label in hours or minutes that resolves to today
LabelAges == (0..MaxAge) \cup {11}

Item(ad, sym, title, age) == [ad |-> ad, sym |-> sym, title |-> title, age |-> age]

\* the kinds of stream item: stories with and without a time label, an
\* advertisement, an item without a headline, an item that does not mention
\* the symbol
ItemKinds ==
    {Item(FALSE, TRUE, TRUE, a) : a \in LabelAges \cup {NoLabel}}
        \cup {Item(TRUE, TRUE, TRUE, 1), Item(FALSE, TRUE, FALSE, 1),
              Item(FALSE, FALSE, TRUE, 1)}

RECURSIVE NumDigits(_)
NumDigits(n) == IF n < 10 THEN 1 ELSE 1 + NumDigits(n \div 10)

RECURSIVE Pow10(_)
Pow10(k) == IF k = 0 THEN 1 ELSE 10 * Pow10(k - 1)

\* re.search(rf'{n}d ago', ...) and its three sibling patterns on the label
\* "<age>d ago": the patterns are not anchored on the left, so the digits of
\* n need only end the digits of age
LabelMatches(age, n) == age >= 1 /\ age % Pow10(NumDigits(n)) = n

\* check_target_days(html_content, target_days)
check_target_days(html, n) ==
    LET m == IF n = 0 THEN 1 ELSE n
    IN  \E i \in DOMAIN html :
           html[i].age # NoLabel /\ LabelMatches(html[i].age, m)

\* the argument the scroll loop passes to check_target_days
StopArg(td) == IF td = 0 THEN 0 ELSE td + 1

ExcludedStrict(age, td, exact) == IF exact THEN age # td ELSE age > td

\* the per-item filter of extract_news_item
Excluded(age, td, exact) == IF exact THEN age # td ELSE age >= td

\* extract_news_item returns a record (not None) for the item
Keeps(item, td, exact) ==
    /\ item.title
    /\ item.age # NoLabel => ~Excluded(item.age, td, exact)

\* extract_all_news: skip ads, skip items that do not mention the symbol
extract_all_news(html, td, exact) ==
    SelectSeq(html, LAMBDA it : ~it.ad /\ it.sym /\ Keeps(it, td, exact))

\* for attempt in range(3)
LoadAttempts == 3

\* if attempt == 2: raise
FinalAttempt == 2

LastAttemptOffByOne(a) == a = FinalAttempt + 1

LastAttempt(a) == a = FinalAttempt

ScrollBudgetLeftInclusive(sc, ms) == sc <= ms

\* for scroll in range(max_scrolls)
ScrollBudgetLeft(sc, ms) == sc < ms

NeedsQuitNever(d) == FALSE

\* finally: if driver:
NeedsQuit(d) == d = "open"

\* the crawl went through the except branch of scrape_yahoo_finance_news
Failed(log) == \E i \in DOMAIN log : log[i] = "except"

Count(log, e) == Len(SelectSeq(log, LAMBDA x : x = e))

InitScrollState ==
    /\ yi = 1
    /\ ypc = "next_ticker"
    /\ driver = "none"
    /\ attempt = 0
    /\ scroll = 0
    /\ rendered = <<>>
    /\ target_found = FALSE
    /\ news_items = <<>>
    /\ all_news = EmptyDict
    /\ ylog = <<>>
    /\ ycrawled = <<>>
    /\ youtcome = <<>>

InitScroll ==
    /\ ytickers \in SeqsUpTo(Symbols, MaxTickers)
    /\ target_days \in 0..MaxTarget
    /\ max_scrolls \in 0..MaxScrolls
    /\ exact_day_only \in BOOLEAN
    /\ feed = ItemKinds
    /\ InitScrollState

\* for ticker in tickers: the call of scrape_yahoo_finance_news
YNextTicker ==
    /\ prog = "scroll"
    /\ ypc = "next_ticker"
    /\ yi <= Len(ytickers)
    /\ driver' = "none"
    /\ attempt' = 0
    /\ scroll' = 0
    /\ rendered' = <<>>
    /\ target_found' = FALSE
    /\ news_items' = <<>>
    /\ ylog' = <<>>
    /\ ypc' = "create"
    /\ ycrawled' = Append(ycrawled, ytickers[yi])
    /\ UNCHANGED <<crawlVars, storeVars, pipeVars, otherVars>>
    /\ UNCHANGED <<prog, ytickers, target_days, max_scrolls, exact_day_only,
                   feed, yi, all_news, youtcome>>

\* driver = create_driver(headless)
CreateDriver ==
    /\ prog = "scroll"
    /\ ypc = "create"
    /\ \/ driver' = "open" /\ ylog' = Append(ylog, "create_ok") /\ ypc' = "load"
       \/ driver' = driver /\ ylog' = Append(ylog, "create_fail") /\ ypc' = "except"
    /\ UNCHANGED <<crawlVars, storeVars, pipeVars, otherVars, ycrawled, youtcome>>
    /\ UNCHANGED <<prog, ytickers, target_days, max_scrolls, exact_day_only,
                   feed, yi, attempt, scroll, rendered, target_found,
                   news_items, all_news>>

\* one pass of the page load loop: driver.get(url) and the wait for the
\* stream container
LoadPage ==
    /\ prog = "scroll"
    /\ ypc = "load"
    /\ \/ /\ ylog' = Append(ylog, "load_ok")
          /\ \E first \in {<<>>} \cup {<<it>> : it \in feed} : rendered' = first
          /\ ypc' = "scroll_check"
          /\ UNCHANGED attempt
       \/ /\ ylog' = Append(ylog, "load_fail")
          /\ rendered' = rendered
          /\ IF LastAttempt(attempt)
             THEN ypc' = "except" /\ attempt' = attempt
             ELSE IF attempt + 1 < LoadAttempts
                  THEN ypc' = "load" /\ attempt' = attempt + 1
                  ELSE ypc' = "scroll_check" /\ attempt' = attempt
    /\ UNCHANGED <<crawlVars, storeVars, pipeVars, otherVars, ycrawled, youtcome>>
    /\ UNCHANGED <<prog, ytickers, target_days, max_scrolls, exact_day_only,
                   feed, yi, driver, scroll, target_found, news_items, all_news>>

\* the head of the scroll loop: the budget, then check_target_days on the
\* page as rendered now
ScrollCheck ==
    /\ prog = "scroll"
    /\ ypc = "scroll_check"
    /\ IF ScrollBudgetLeft(scroll, max_scrolls)
       THEN IF check_target_days(rendered, StopArg(target_days))
            THEN target_found' = TRUE /\ ypc' = "parse"
            ELSE target_found' = target_found /\ ypc' = "scroll_do"
       ELSE target_found' = target_found /\ ypc' = "parse"
    /\ UNCHANGED <<crawlVars, storeVars, pipeVars, otherVars, ycrawled, youtcome>>
    /\ UNCHANGED <<prog, ytickers, target_days, max_scrolls, exact_day_only,
                   feed, yi, driver, attempt, scroll, rendered, news_items,
                   all_news, ylog>>

\* scroll_and_wait(driver): the page may render one more item
ScrollDown ==
    /\ prog = "scroll"
    /\ ypc = "scroll_do"
    /\ \/ /\ ylog' = Append(ylog, "scroll")
          /\ \E more \in {<<>>} \cup {<<it>> : it \in feed} :
                rendered' = IF Len(rendered) < MaxItems
                            THEN rendered \o more ELSE rendered
          /\ scroll' = scroll + 1
          /\ ypc' = "scroll_check"
       \/ /\ ylog' = Append(ylog, "scroll_fail")
          /\ ypc' = "except"
          /\ UNCHANGED <<rendered, scroll>>
    /\ UNCHANGED <<crawlVars, storeVars, pipeVars, otherVars, ycrawled, youtcome>>
    /\ UNCHANGED <<prog, ytickers, target_days, max_scrolls, exact_day_only,
                   feed, yi, driver, attempt, target_found, news_items, all_news>>

\* soup = BeautifulSoup(driver.page_source); news_items = extract_all_news(...)
ParsePage ==
    /\ prog = "scroll"
    /\ ypc = "parse"
    /\ \/ /\ ylog' = Append(ylog, "parse")
          /\ news_items' = extract_all_news(rendered, target_days, exact_day_only)
          /\ ypc' = "finally"
       \/ /\ ylog' = Append(ylog, "parse_fail")
          /\ news_items' = news_items
          /\ ypc' = "except"
    /\ UNCHANGED <<crawlVars, storeVars, pipeVars, otherVars, ycrawled, youtcome>>
    /\ UNCHANGED <<prog, ytickers, target_days, max_scrolls, exact_day_only,
                   feed, yi, driver, attempt, scroll, rendered, target_found,
                   all_news>>

\* except Exception: return []
CrawlFailed ==
    /\ prog = "scroll"
    /\ ypc = "except"
    /\ news_items' = <<>>
    /\ ylog' = Append(ylog, "except")
    /\ ypc' = "finally"
    /\ UNCHANGED <<crawlVars, storeVars, pipeVars, otherVars, ycrawled, youtcome>>
    /\ UNCHANGED <<prog, ytickers, target_days, max_scrolls, exact_day_only,
                   feed, yi, driver, attempt, scroll, rendered, target_found,
                   all_news>>

\* finally: if driver: driver.quit(), an exception of quit being logged
ReleaseDriver ==
    /\ prog = "scroll"
    /\ ypc = "finally"
    /\ IF NeedsQuit(driver)
       THEN /\ driver' = "closed"
            /\ \E e \in {"quit", "quit_fail"} : ylog' = Append(ylog, e)
       ELSE UNCHANGED <<driver, ylog>>
    /\ ypc' = "return"
    /\ UNCHANGED <<crawlVars, storeVars, pipeVars, otherVars, ycrawled, youtcome>>
    /\ UNCHANGED <<prog, ytickers, target_days, max_scrolls, exact_day_only,
                   feed, yi, attempt, scroll, rendered, target_found,
                   news_items, all_news>>

\* back in scrape_multiple_yahoo_tickers: all_news[ticker] = news
StoreNews ==
    /\ prog = "scroll"
    /\ ypc = "return"
    /\ all_news' = DictPut(all_news, ytickers[yi], news_items)
    /\ yi' = yi + 1
    /\ ypc' = "next_ticker"
    /\ youtcome' = Append(youtcome, IF Failed(ylog) THEN "failed" ELSE "ok")
    /\ UNCHANGED <<crawlVars, storeVars, pipeVars, otherVars>>
    /\ UNCHANGED <<prog, ytickers, target_days, max_scrolls, exact_day_only,
                   feed, driver, attempt, scroll, rendered, target_found,
                   news_items, ylog, ycrawled>>

\* the loop over the tickers is exhausted: return all_news
ReturnNews ==
    /\ prog = "scroll"
    /\ ypc = "next_ticker"
    /\ yi > Len(ytickers)
    /\ ypc' = "returned"
    /\ UNCHANGED <<crawlVars, storeVars, pipeVars, otherVars, ycrawled, youtcome>>
    /\ UNCHANGED <<prog, ytickers, target_days, max_scrolls, exact_day_only,
                   feed, yi, driver, attempt, scroll, rendered, target_found,
                   news_items, all_news, ylog>>

ScrollNext ==
    \/ YNextTicker
    \/ CreateDriver
    \/ LoadPage
    \/ ScrollCheck
    \/ ScrollDown
    \/ ParsePage
    \/ CrawlFailed
    \/ ReleaseDriver
    \/ StoreNews
    \/ ReturnNews

(***************************************************************************)
(* Bulk store writer.                                                      *)
(***************************************************************************)
Fields == {"Open", "Close"}

\* a record of DataFrame.to_dict('records'): a date and float columns; a
\* float is a number ("1.0" stands for any) or NaN
Rec(d, o, c) == [Date |-> d, Open |-> o, Close |-> c]

\* the inputs of the model: n records dated 1..n; no cell, one cell or every
\* cell holds NaN
NanCells(n) ==
    {{}} \cup {{<<k, f>>} : k \in 1..n, f \in Fields}
         \cup {(1..n) \X Fields}

MkData(n, nan) ==
    [k \in 1..n |-> Rec(k, IF <<k, "Open">> \in nan THEN "NaN" ELSE "1.0",
                           IF <<k, "Close">> \in nan THEN "NaN" ELSE "1.0")]

DataSets == UNION {{MkData(n, nan) : nan \in NanCells(n)} : n \in 0..MaxRecords}

\* what a collection may hold before the call: documents of an earlier run
PriorStore(p) == [j \in 1..p |-> [id |-> j, rec |-> Rec(j, "1.0", "1.0")]]

CleanValueKeepsNaN(v) == v

\* if isinstance(value, (np.floating, float)) and np.isnan(value): None
CleanValue(v) == IF v = "NaN" THEN "null" ELSE v

\* the loop over doc.items()
CleanDoc(doc) ==
    [Date |-> doc.Date, Open |-> CleanValue(doc.Open), Close |-> CleanValue(doc.Close)]

AfterDeleteKeeps(st) == st

\* collection.delete_many({})
AfterDelete(st) == <<>>

\* range(0, len(clean_data), batch_size) still yields i; a negative step
\* from 0 yields nothing (a zero step raises, see CleanAndStart)
InRange(i, n, b) == b > 0 /\ i < n

Min(a, b) == IF a < b THEN a ELSE b

\* clean_data[i:i + batch_size] for a positive batch_size
Slice(sq, i, b) == SubSeq(sq, i + 1, Min(i + b, Len(sq)))

\* the documents of `batch' the store accepts, with the _ids it gives them
Accepted(batch, rej, first) ==
    LET ok == SelectSeq([k \in 1..Len(batch) |-> k], LAMBDA k : k \notin rej)
    IN  [k \in 1..Len(ok) |-> [id |-> first + k - 1, rec |-> batch[ok[k]]]]

Ids(st) == {st[k].id : k \in DOMAIN st}

Recs(st) == [k \in DOMAIN st |-> st[k].rec]

InitWriterLocals ==
    /\ wpc = "call"
    /\ clean_data = <<>>
    /\ bi = 0
    /\ total_inserted = 0
    /\ sent = <<>>
    /\ wlog = <<>>
    /\ werr = "none"

InitStore ==
    /\ \E p \in 0..MaxPrior : store = PriorStore(p) /\ nextId = p + 1 /\ priorIds = 1..p
    /\ data \in DataSets
    /\ batch_size \in (-1)..MaxBatch
    /\ calls = 1
    /\ firstContents = <<>>
    /\ InitWriterLocals

\* collection = self.get_collection(...); collection.delete_many({})
DeleteMany ==
    /\ prog = "store"
    /\ wpc = "call"
    /\ store' = AfterDelete(store)
    /\ wlog' = Append(wlog, "delete")
    /\ wpc' = "clean"
    /\ UNCHANGED <<prog, crawlVars, scrollVars, pipeVars, otherVars>>
    /\ UNCHANGED <<data, batch_size, clean_data, bi, total_inserted, sent, werr,
                   nextId, priorIds, calls, firstContents>>

\* the NaN replacement loop, then total_inserted = 0 and the range of the
\* batch loop, which raises ValueError for a zero step
CleanAndStart ==
    /\ prog = "store"
    /\ wpc = "clean"
    /\ clean_data' = [k \in DOMAIN data |-> CleanDoc(data[k])]
    /\ total_inserted' = 0
    /\ bi' = 0
    /\ IF batch_size = 0
       THEN wpc' = "raised" /\ werr' = "ValueError"
       ELSE wpc' = "insert" /\ werr' = werr
    /\ UNCHANGED <<prog, crawlVars, scrollVars, pipeVars, otherVars>>
    /\ UNCHANGED <<store, data, batch_size, sent, wlog, nextId, priorIds, calls,
                   firstContents>>

\* one pass of the batch loop: insert_many(batch, ordered=False).  The store
\* tries every document of the batch; when it rejects some, the others are
\* inserted and insert_many raises BulkWriteError, which nothing in
\* clear_and_insert_bulk catches
InsertBatch ==
    /\ prog = "store"
    /\ wpc = "insert"
    /\ InRange(bi, Len(clean_data), batch_size)
    /\ LET batch == Slice(clean_data, bi, batch_size)
       IN  \E rej \in SUBSET (1..Len(batch)) :
              /\ sent' = Append(sent, batch)
              /\ wlog' = Append(wlog, "insert")
              /\ store' = store \o Accepted(batch, rej, nextId)
              /\ nextId' = nextId + Len(batch) - Cardinality(rej)
              /\ IF rej = {}
                 THEN /\ total_inserted' = total_inserted + Len(batch)
                      /\ bi' = bi + batch_size
                      /\ UNCHANGED <<wpc, werr>>
                 ELSE /\ wpc' = "raised"
                      /\ werr' = "BulkWriteError"
                      /\ UNCHANGED <<total_inserted, bi>>
    /\ UNCHANGED <<prog, crawlVars, scrollVars, pipeVars, otherVars>>
    /\ UNCHANGED <<data, batch_size, clean_data, priorIds, calls, firstContents>>

\* the batch loop is exhausted: return total_inserted
WriterReturns ==
    /\ prog = "store"
    /\ wpc = "insert"
    /\ ~InRange(bi, Len(clean_data), batch_size)
    /\ wpc' = "done"
    /\ firstContents' = IF calls = 1 THEN <<Recs(store)>> ELSE firstContents
    /\ UNCHANGED <<prog, crawlVars, scrollVars, pipeVars, otherVars>>
    /\ UNCHANGED <<store, data, batch_size, clean_data, bi, total_inserted, sent,
                   wlog, werr, nextId, priorIds, calls>>

\* the next pipeline run calls clear_and_insert_bulk again on the collection,
\* with the same records
CallAgain ==
    /\ prog = "store"
    /\ wpc \in {"done", "raised"}
    /\ calls < MaxCalls
    /\ calls' = calls + 1
    /\ priorIds' = Ids(store)
    /\ wpc' = "call"
    /\ clean_data' = <<>>
    /\ bi' = 0
    /\ total_inserted' = 0
    /\ sent' = <<>>
    /\ wlog' = <<>>
    /\ werr' = "none"
    /\ UNCHANGED <<prog, crawlVars, scrollVars, pipeVars, otherVars>>
    /\ UNCHANGED <<store, data, batch_size, nextId, firstContents>>

StoreNext ==
    \/ DeleteMany
    \/ CleanAndStart
    \/ InsertBatch
    \/ WriterReturns
    \/ CallAgain

(***************************************************************************)
(* Ticker data pipeline.                                                   *)
(***************************************************************************)
\* the symbols of config.tickers (upper-cased by the settings loader)
ConfigSymbols == {"AAPL", "MSFT"}

Contains(sq, x) == \E i \in DOMAIN sq : sq[i] = x

\* results[ticker] = data on a dict that keeps insertion order
KeysPut(keys, k) == IF Contains(keys, k) THEN keys ELSE Append(keys, k)

\* `if data is None or data.empty' in the storing loop
Unusable(d) == d \in {"None", "empty"}

OnStoreErrorDrops(fl, t) == fl

\* except Exception: results['failed'].append(ticker)
OnStoreError(fl, t) == Append(fl, t)

InitPipe ==
    /\ ctickers \in SeqsUpTo(ConfigSymbols, MaxTickers)
    /\ ppc = "process"
    /\ pi = 1
    /\ td_keys = <<>>
    /\ ticker_data = EmptyDict
    /\ successful = <<>>
    /\ failed = <<>>
    /\ details = {}
    /\ coll = [t \in ConfigSymbols |-> "prior"]

\* one pass of the loop of process_multiple_tickers: process_ticker_data
\* returns None (nothing downloaded, or the frame is invalid), raises (caught:
\* None is stored), or returns a frame, which may have lost all its rows
ProcessTicker ==
    /\ prog = "pipeline"
    /\ ppc = "process"
    /\ pi <= Len(ctickers)
    /\ \E res \in {"download_none", "invalid", "raised", "empty", "frame"} :
          LET d == IF res \in {"empty", "frame"} THEN res ELSE "None"
          IN  /\ ticker_data' = DictPut(ticker_data, ctickers[pi], d)
              /\ td_keys' = KeysPut(td_keys, ctickers[pi])
    /\ pi' = pi + 1
    /\ UNCHANGED <<prog, crawlVars, scrollVars, storeVars, otherVars>>
    /\ UNCHANGED <<ctickers, ppc, successful, failed, details, coll>>

\* process_multiple_tickers returns; results = {'successful': [], ...}
StartStoring ==
    /\ prog = "pipeline"
    /\ ppc = "process"
    /\ pi > Len(ctickers)
    /\ ppc' = "store"
    /\ pi' = 1
    /\ successful' = <<>>
    /\ failed' = <<>>
    /\ details' = {}
    /\ UNCHANGED <<prog, crawlVars, scrollVars, storeVars, otherVars>>
    /\ UNCHANGED <<ctickers, td_keys, ticker_data, coll>>

\* one pass of the loop over ticker_data.items()
StoreTicker ==
    /\ prog = "pipeline"
    /\ ppc = "store"
    /\ pi <= Len(td_keys)
    /\ LET t == td_keys[pi]
       IN  IF Unusable(ticker_data[t])
           THEN /\ failed' = Append(failed, t)
                /\ UNCHANGED <<successful, details, coll>>
           ELSE \/ \* to_dict or get_collection raises: nothing written
                   /\ failed' = OnStoreError(failed, t)
                   /\ UNCHANGED <<successful, details, coll>>
                \/ \* clear_and_insert_bulk raises after its delete
                   /\ coll' = [coll EXCEPT ![t] = "partial"]
                   /\ failed' = OnStoreError(failed, t)
                   /\ UNCHANGED <<successful, details>>
                \/ \* create_indexes or get_data_summary raises
                   /\ coll' = [coll EXCEPT ![t] = "replaced"]
                   /\ failed' = OnStoreError(failed, t)
                   /\ UNCHANGED <<successful, details>>
                \/ \* stored, indexed and summarised
                   /\ coll' = [coll EXCEPT ![t] = "replaced"]
                   /\ successful' = Append(successful, t)
                   /\ details' = details \cup {t}
                   /\ UNCHANGED failed
    /\ pi' = pi + 1
    /\ UNCHANGED <<prog, crawlVars, scrollVars, storeVars, otherVars>>
    /\ UNCHANGED <<ctickers, ppc, td_keys, ticker_data>>

\* return results
PipeReturns ==
    /\ prog = "pipeline"
    /\ ppc = "store"
    /\ pi > Len(td_keys)
    /\ ppc' = "returned"
    /\ UNCHANGED <<prog, crawlVars, scrollVars, storeVars, otherVars>>
    /\ UNCHANGED <<ctickers, pi, td_keys, ticker_data, successful, failed,
                   details, coll>>

PipeNext ==
    \/ ProcessTicker
    \/ StartStoring
    \/ StoreTicker
    \/ PipeReturns

(***************************************************************************)
(* Relative time labels: parse_relative_time_to_date.  A text is a         *)
(* sequence of characters; dates are day numbers and the clock counts      *)
(* minutes.                                                                *)
(***************************************************************************)
MinutesPerHour == 60

MinutesPerDay == 1440

\* None
NoDate == -1

\* re.search found nothing
NoMatch == -1

\* the counts written in the labels of the model
Counts == (0..MaxCount) \cup {12}

Digits == <<"0", "1", "2", "3", "4", "5", "6", "7", "8", "9">>

IsDigit(c) == \E d \in 1..10 : Digits[d] = c

DigitVal(c) == (CHOOSE d \in 1..10 : Digits[d] = c) - 1

RECURSIVE Numeral(_)
Numeral(n) ==
    IF n < 10 THEN <<Digits[n + 1]>>
    ELSE Numeral(n \div 10) \o <<Digits[(n % 10) + 1]>>

\* int(match.group(1))
RECURSIVE IntOf(_)
IntOf(ds) ==
    IF ds = <<>> THEN 0
    ELSE 10 * IntOf(SubSeq(ds, 1, Len(ds) - 1)) + DigitVal(ds[Len(ds)])

LowerLetters == <<"a", "d", "e", "g", "h", "i", "m", "n", "o", "r", "s", "t", "u", "y">>

UpperLetters == <<"A", "D", "E", "G", "H", "I", "M", "N", "O", "R", "S", "T", "U", "Y">>

LowerOf(c) ==
    IF \E i \in DOMAIN UpperLetters : UpperLetters[i] = c
    THEN LowerLetters[CHOOSE i \in DOMAIN UpperLetters : UpperLetters[i] = c]
    ELSE c

UpperOf(c) ==
    IF \E i \in DOMAIN LowerLetters : LowerLetters[i] = c
    THEN UpperLetters[CHOOSE i \in DOMAIN LowerLetters : LowerLetters[i] = c]
    ELSE c

\* str.lower
Lower(t) == [i \in 1..Len(t) |-> LowerOf(t[i])]

ToUpper(t) == [i \in 1..Len(t) |-> UpperOf(t[i])]

\* str.strip
RECURSIVE Strip(_)
Strip(t) ==
    IF t = <<>> THEN t
    ELSE IF t[1] = " " THEN Strip(Tail(t))
    ELSE IF t[Len(t)] = " " THEN Strip(SubSeq(t, 1, Len(t) - 1))
    ELSE t

UnitWords ==
    [d |-> <<"d">>,
     day |-> <<"d", "a", "y">>,
     days |-> <<"d", "a", "y", "s">>,
     hr |-> <<"h", "r">>,
     hrs |-> <<"h", "r", "s">>,
     hour |-> <<"h", "o", "u", "r">>,
     hours |-> <<"h", "o", "u", "r", "s">>,
     min |-> <<"m", "i", "n">>,
     mins |-> <<"m", "i", "n", "s">>,
     minute |-> <<"m", "i", "n", "u", "t", "e">>,
     minutes |-> <<"m", "i", "n", "u", "t", "e", "s">>]

UnitNames == DOMAIN UnitWords

UnitClass(u) ==
    IF u \in {"d", "day", "days"} THEN "day"
    ELSE IF u \in {"hr", "hrs", "hour", "hours"} THEN "hour"
    ELSE "minute"

\* timedelta(days=1), timedelta(hours=1), timedelta(minutes=1)
UnitMinutes(u) ==
    IF UnitClass(u) = "day" THEN MinutesPerDay
    ELSE IF UnitClass(u) = "hour" THEN MinutesPerHour
    ELSE 1

Ago == <<" ", "a", "g", "o">>

\* each pattern is (\d+) followed by one of the listed tails
day_patterns ==
    <<{<<"d", " ", "a", "g", "o">>},
      {<<" ", "d", "a", "y", " ", "a", "g", "o">>,
       <<" ", "d", "a", "y", "s", " ", "a", "g", "o">>},
      {<<" ", "d", "a", "y", " ", "a", "g", "o">>}>>

hour_patterns ==
    <<{<<" ", "h", "r", " ", "a", "g", "o">>,
       <<" ", "h", "r", "s", " ", "a", "g", "o">>},
      {<<" ", "h", "o", "u", "r", " ", "a", "g", "o">>,
       <<" ", "h", "o", "u", "r", "s", " ", "a", "g", "o">>},
      {<<" ", "h", "o", "u", "r", " ", "a", "g", "o">>}>>

minute_patterns ==
    <<{<<" ", "m", "i", "n", " ", "a", "g", "o">>,
       <<" ", "m", "i", "n", "s", " ", "a", "g", "o">>},
      {<<" ", "m", "i", "n", "u", "t", "e", " ", "a", "g", "o">>,
       <<" ", "m", "i", "n", "u", "t", "e", "s", " ", "a", "g", "o">>},
      {<<" ", "m", "i", "n", "u", "t", "e", " ", "a", "g", "o">>}>>

StartsWithAt(t, i, lit) ==
    /\ i + Len(lit) - 1 <= Len(t)
    /\ \A k \in 1..Len(lit) : t[i + k - 1] = lit[k]

\* the last digit of the run of digits that starts at i
RECURSIVE RunEnd(_, _)
RunEnd(t, i) ==
    IF i < Len(t) /\ IsDigit(t[i + 1]) THEN RunEnd(t, i + 1) ELSE i

\* the pattern matches with its group starting at i
MatchesAt(t, i, pat) ==
    /\ IsDigit(t[i])
    /\ \E tl \in pat : StartsWithAt(t, RunEnd(t, i) + 1, tl)

\* re.search(pattern, time_text): the group of the leftmost match
Search(t, pat) ==
    IF \E i \in 1..Len(t) : MatchesAt(t, i, pat)
    THEN LET i == CHOOSE j \in 1..Len(t) :
                     /\ MatchesAt(t, j, pat)
                     /\ \A k \in 1..(j - 1) : ~MatchesAt(t, k, pat)
         IN  IntOf(SubSeq(t, i, RunEnd(t, i)))
    ELSE NoMatch

\* for pattern in patterns: ... if match: the first pattern that matches
RECURSIVE FirstMatch(_, _)
FirstMatch(t, pats) ==
    IF pats = <<>> THEN NoMatch
    ELSE IF Search(t, Head(pats)) # NoMatch THEN Search(t, Head(pats))
    ELSE FirstMatch(t, Tail(pats))

\* strftime('%Y-%m-%d')
DateOf(minutes) == minutes \div MinutesPerDay

NoMatchResultNull(nw) == NoDate

\* return current_date.strftime('%Y-%m-%d')
NoMatchResult(nw) == DateOf(nw)

\* except Exception: return datetime.now().strftime('%Y-%m-%d')
OnParseError(nw) == DateOf(nw)

parse_relative_time_to_date(tt, nw) ==
    IF ~tt.isText THEN OnParseError(nw)
    ELSE LET t == Strip(Lower(tt.chars))
             days == FirstMatch(t, day_patterns)
             hours == FirstMatch(t, hour_patterns)
             minutes == FirstMatch(t, minute_patterns)
         IN  IF days # NoMatch THEN DateOf(nw - days * MinutesPerDay)
             ELSE IF hours # NoMatch THEN DateOf(nw - hours * MinutesPerHour)
             ELSE IF minutes # NoMatch THEN DateOf(nw - minutes)
             ELSE NoMatchResult(nw)

\* the texts that are no relative time
JunkTexts ==
    <<<<>>,
      <<"y", "e", "s", "t", "e", "r", "d", "a", "y">>,
      <<"2", " ", "w", "e", "e", "k", "s", " ", "a", "g", "o">>,
      <<"j", "u", "s", "t", " ", "n", "o", "w">>,
      <<"d", " ", "a", "g", "o">>,
      <<"3", " ", "a", "g", "o">>>>

Label(kind, n, unit, spaced, upper, padded, n2, unit2) ==
    [kind |-> kind, n |-> n, unit |-> unit, spaced |-> spaced,
     upper |-> upper, padded |-> padded, n2 |-> n2, unit2 |-> unit2]

\* "<n> <unit> ago", or "<n><unit> ago" when not spaced
Phrase(n, unit, spaced) ==
    Numeral(n) \o (IF spaced THEN <<" ">> ELSE <<>>) \o UnitWords[unit] \o Ago

\* the units of the two-phrase texts, one of each class, in the site's spelling
SiteUnits == {"d", "hours", "minutes"}

Labels ==
    {Label("phrase", n, u, sp, up, pad, 0, u) :
        n \in Counts, u \in UnitNames, sp \in BOOLEAN, up \in BOOLEAN,
        pad \in BOOLEAN}
    \cup {l \in {Label("two", n, u, u # "d", FALSE, FALSE, n2, u2) :
                    n \in 0..MaxCount, u \in SiteUnits, n2 \in 0..MaxCount,
                    u2 \in SiteUnits} : l.unit # l.unit2}
    \cup {Label("junk", k, "d", FALSE, FALSE, FALSE, 0, "d") :
            k \in DOMAIN JunkTexts}
    \cup {Label("none", 0, "d", FALSE, FALSE, FALSE, 0, "d")}

\* the text a label stands for
Render(l) ==
    IF l.kind = "none" THEN [isText |-> FALSE, chars |-> <<>>]
    ELSE IF l.kind = "junk" THEN [isText |-> TRUE, chars |-> JunkTexts[l.n]]
    ELSE IF l.kind = "two"
    THEN [isText |-> TRUE,
          chars |-> Phrase(l.n, l.unit, l.spaced) \o <<" ">>
                       \o Phrase(l.n2, l.unit2, l.unit2 # "d")]
    ELSE LET body == Phrase(l.n, l.unit, l.spaced)
             cased == IF l.upper THEN ToUpper(body) ELSE body
         IN  [isText |-> TRUE,
              chars |-> IF l.padded THEN <<" ">> \o cased \o <<" ">> ELSE cased]

\* the times of day of the model: midnight, the first minutes, the last minute
Clock == {FirstDay * MinutesPerDay + m : m \in {0, 1, 90, MinutesPerDay - 1}}

InitParse ==
    /\ label \in Labels
    /\ time_text = Render(label)
    /\ now \in Clock
    /\ tpc = "call"
    /\ parsed = NoDate

ParseTime ==
    /\ prog = "parse"
    /\ tpc = "call"
    /\ parsed' = parse_relative_time_to_date(time_text, now)
    /\ tpc' = "returned"
    /\ UNCHANGED <<prog, crawlVars, scrollVars, storeVars, pipeVars>>
    /\ UNCHANGED <<time_text, label, now, extractVars, normVars, mainVars,
                   extraVars>>

ParseNext == ParseTime

(***************************************************************************)
(* The page extractor: extract_news_item and extract_all_news.             *)
(***************************************************************************)
\* target_days=None
NoTarget == -1

\* the separator of "source * time" in the publishing line
Bullet == "*"

\* the headlines of the model
StockRises == <<"S", "t", "o", "c", "k", " ", "r", "i", "s", "e", "s", " ", "5", "%">>

Headlines == {StockRises, <<" ", "U", "p", " ">>}

\* whitespace only
BlankText == <<" ", " ">>

NoText == [present |-> FALSE, chars |-> <<>>]

SomeText(chars) == [present |-> TRUE, chars |-> chars]

\* li.stream-item: its classes, whether its html mentions the symbol, its
\* h3 headline, its headline link (none, an href that is absolute, relative
\* or a relative path starting with the letters http, or no href at all) and
\* its publishing line
StreamItem(cls, sym, title, link, time) ==
    [cls |-> cls, sym |-> sym, title |-> title, link |-> link, time |-> time]

DayLabel(n) == Render(Label("phrase", n, "d", FALSE, FALSE, FALSE, 0, "d")).chars

\* a story as the site serves it, n days old
Story(n) ==
    StreamItem({"stream-item"}, TRUE, SomeText(StockRises), "absolute",
               SomeText(DayLabel(n)))

\* the publishing lines of the model besides "<n>d ago"
OtherTimes ==
    {NoText,
     SomeText(JunkTexts[2]),
     SomeText(<<"R", " ", Bullet, " ">> \o DayLabel(2)),
     SomeText(Phrase(5, "hours", TRUE)),
     SomeText(<<" ">> \o DayLabel(1) \o <<" ">>)}

ItemShapes ==
    {Story(n) : n \in 0..(MaxAge + 1)}
    \cup {[Story(1) EXCEPT !.cls = {"stream-item", c}] : c \in {"ad-item", "native-ad"}}
    \cup {[Story(1) EXCEPT !.sym = FALSE]}
    \cup {[Story(1) EXCEPT !.title = t] :
             t \in {NoText, SomeText(<<>>), SomeText(BlankText)}
                   \cup {SomeText(h) : h \in Headlines}}
    \cup {[Story(1) EXCEPT !.link = l] : l \in {"none", "relative", "httpish", "nohref"}}
    \cup {[Story(1) EXCEPT !.time = t] : t \in OtherTimes}
    \cup {[Story(1) EXCEPT !.title = NoText, !.link = "none"]}
    \cup {[Story(1) EXCEPT !.link = "none", !.time = NoText]}

\* the shapes the pages of several items are made of: an advertisement, two
\* stories, a story that does not mention the symbol, an item with no headline
CoreShapes ==
    {[Story(1) EXCEPT !.cls = {"stream-item", "ad-item"}],
     Story(1),
     Story(MaxAge),
     Story(MaxAge + 1),
     [Story(MaxAge + 1) EXCEPT !.sym = FALSE],
     [Story(1) EXCEPT !.title = NoText]}

\* container.find_all('li', class_='stream-item')
Pages ==
    {<<>>} \cup {<<it>> : it \in ItemShapes}
           \cup (SeqsUpTo(CoreShapes, MaxStream) \ SeqsUpTo(CoreShapes, 1))

\* any(cls in item.get('class', []) for cls in ['ad-item', 'native-ad'])
IsAd(item) == item.cls \cap {"ad-item", "native-ad"} # {}

\* url if url.startswith('http') else f'https://ca.finance.yahoo.com{url}'
UrlOf(href) == IF href \in {"absolute", "httpish"} THEN href ELSE "based"

\* time_text.split(Bullet)[-1]
RECURSIVE AfterLastBullet(_)
AfterLastBullet(t) ==
    IF \E i \in DOMAIN t : t[i] = Bullet
    THEN AfterLastBullet(SubSeq(t, (CHOOSE i \in DOMAIN t : t[i] = Bullet) + 1, Len(t)))
    ELSE t

\* time_text.split(Bullet)[-1].strip() if Bullet in time_text else time_text
TimestampText(chars) ==
    LET text == Strip(chars)
    IN  IF \E i \in DOMAIN text : text[i] = Bullet
        THEN Strip(AfterLastBullet(text))
        ELSE text

\* the record under construction: the keys set so far and their values
EmptyData == [keys |-> {}, title |-> <<>>, url |-> "", timestamp |-> <<>>,
              date |-> NoDate, tickers |-> ""]

WithTitle(d, item) ==
    IF item.title.present
    THEN [d EXCEPT !.keys = @ \cup {"title"}, !.title = Strip(item.title.chars)]
    ELSE d

WithUrl(d, item) ==
    IF item.link # "none"
    THEN [d EXCEPT !.keys = @ \cup {"url"}, !.url = UrlOf(item.link)]
    ELSE d

WithTime(d, item, nw) ==
    IF item.time.present
    THEN LET text == TimestampText(item.time.chars)
         IN  [d EXCEPT !.keys = @ \cup {"timestamp", "date"},
                       !.timestamp = text,
                       !.date = parse_relative_time_to_date([isText |-> TRUE, chars |-> text], nw)]
    ELSE d

\* url.startswith raises when the link has no href
LinkRaises(item) == item.link = "nohref"

\* delta_days = (current_date - article_date).days
DeltaDays(d, nw) == DateOf(nw) - d.date

FilteredOutNever(delta, td, exact) == FALSE

\* if exact_day_only and delta_days != target_days: return None
\* elif not exact_day_only and delta_days >= target_days: return None
FilteredOut(delta, td, exact) ==
    IF exact THEN delta # td ELSE delta >= td

\* data.get('title')
HasTitle(d) == "title" \in d.keys /\ d.title # <<>>

\* extract_news_item: <<record>>, or <<>> for None; nw is the clock when the
\* time is parsed, nw2 when the age is computed
extract_news_item(item, symbol, td, exact, nw, nw2) ==
    IF LinkRaises(item) THEN <<>>
    ELSE LET d == WithTime(WithUrl(WithTitle(EmptyData, item), item), item, nw)
         IN  IF /\ item.time.present
                /\ td # NoTarget
                /\ FilteredOut(DeltaDays(d, nw2), td, exact)
             THEN <<>>
             ELSE IF HasTitle(d)
                  THEN <<[d EXCEPT !.keys = @ \cup {"tickers"}, !.tickers = symbol]>>
                  ELSE <<>>

\* if symbol not in item_html: continue
SkipsForSymbol(item) == ~item.sym

\* the symbol the extraction is called with
GivenSymbol == "AAPL"

Filters ==
    {<<NoTarget, FALSE>>} \cup ((0..MaxTarget) \X BOOLEAN)

InitExtract ==
    /\ soup \in Pages
    /\ \E f \in Filters : xtarget = f[1] /\ xexact = f[2]
    /\ xnow \in {FirstDay * MinutesPerDay + m : m \in {90, MinutesPerDay - 1}}
    /\ xi = 1
    /\ xout = <<>>
    /\ xlog = <<>>
    /\ xpc = "loop"

\* the clock read when the age is computed is the one read when the time
\* was parsed, or a later one; only a change of day in between matters
Ticks(nw) == IF nw % MinutesPerDay = MinutesPerDay - 1 THEN {0, 1} ELSE {0}

\* one pass of the loop of extract_all_news
ExtractItem ==
    /\ prog = "extract"
    /\ xpc = "loop"
    /\ xi <= Len(soup)
    /\ \E tick \in Ticks(xnow) :
          LET item == soup[xi]
              got == IF IsAd(item) \/ SkipsForSymbol(item) THEN <<>>
                     ELSE extract_news_item(item, GivenSymbol, xtarget, xexact,
                                            xnow, xnow + tick)
              plain == extract_news_item(item, GivenSymbol, NoTarget, FALSE,
                                         xnow, xnow + tick)
              delta == IF item.time.present
                       THEN DeltaDays(WithTime(EmptyData, item, xnow), xnow + tick)
                       ELSE NoDate
          IN  /\ xout' = xout \o got
              /\ xlog' = Append(xlog, [kept |-> got # <<>>, delta |-> delta,
                                       reached |-> ~(IsAd(item) \/ SkipsForSymbol(item)),
                                       plain |-> plain # <<>>,
                                       clock |-> xnow])
              /\ xnow' = xnow + tick
    /\ xi' = xi + 1
    /\ UNCHANGED <<prog, crawlVars, scrollVars, storeVars, pipeVars, parseVars>>
    /\ UNCHANGED <<normVars, mainVars, extraVars>>
    /\ UNCHANGED <<soup, xtarget, xexact, xpc>>

\* return news_items
ExtractReturns ==
    /\ prog = "extract"
    /\ xpc = "loop"
    /\ xi > Len(soup)
    /\ xpc' = "returned"
    /\ UNCHANGED <<prog, crawlVars, scrollVars, storeVars, pipeVars, parseVars>>
    /\ UNCHANGED <<normVars, mainVars, extraVars>>
    /\ UNCHANGED <<soup, xtarget, xexact, xnow, xi, xout, xlog>>

ExtractNext ==
    \/ ExtractItem
    \/ ExtractReturns

(***************************************************************************)
(* The normalizer: process_ticker_data with standardize_column_names,      *)
(* validate_data and clean_data.  A frame is its date-like column (or      *)
(* "none"), the name of its index ("range" for an unnamed one), the kind   *)
(* of value its dates are and its rows; a row is a date cell d and one     *)
(* numeric cell v.                                                         *)
(***************************************************************************)
Cell(kind, val) == [kind |-> kind, val |-> val]

\* NaN / NaT
NaNCell == Cell("nan", 0)

\* None, as written by replace
NoneCell == Cell("none", 0)

PosInf == Cell("inf", 1)

NegInf == Cell("-inf", 1)

IsNull(c) == c.kind \in {"nan", "none"}

\* the dates of the model; as texts they are "2/1/2024" and "10/1/2024"
DateCells == {NaNCell, Cell("num", 2), Cell("num", 10)}

ValueCells == {NaNCell, Cell("num", 1), PosInf, NegInf}

Bar(d, v) == [d |-> d, v |-> v]

Bars == {Bar(d, v) : d \in DateCells, v \in ValueCells}

\* date_columns = ['Date', 'Datetime', 'date', 'datetime']
date_columns == <<"Date", "Datetime", "date", "datetime">>

Frame(date, index, kind, rows) ==
    [date |-> date, index |-> index, kind |-> kind, rows |-> rows,
     extra |-> {}]

\* frames as yfinance builds them (the dates are the index, named Date or
\* Datetime) and frames that carry their dates in a column
RowSets == {<<>>} \cup SeqsUpTo(Bars, MaxBars)

Frames ==
    {Frame("none", ix, "timestamp", rows) :
        ix \in {"Date", "Datetime", "range"}, rows \in RowSets}
    \cup {Frame(dc, "range", k, rows) :
            dc \in {date_columns[i] : i \in DOMAIN date_columns},
            k \in {"timestamp", "text"}, rows \in RowSets}

\* df.empty
IsEmpty(df) == df.rows = <<>>

RenamedNever(df) == df

\* standardize_column_names: the first date-like column becomes 'Date'
Renamed(df) ==
    IF df.date # "none" /\ df.date # "Date" THEN [df EXCEPT !.date = "Date"]
    ELSE df

standardize_column_names(df) == Renamed(df)

\* validate_data
validate_data(df) == ~IsEmpty(df) /\ df.date = "Date"

\* reset_index cannot insert a column that is there already
ResetRaises(df) == df.index = df.date

\* stock_df.reset_index(inplace=True): the index becomes a column
reset_index(df) ==
    [df EXCEPT !.index = "range",
               !.extra = @ \cup {IF df.index = "range" THEN "index" ELSE df.index}]

\* the order sort_values puts two dates in: by day for timestamps, as
\* strings for texts
RECURSIVE LexLess(_, _)
LexLess(a, b) ==
    IF b = <<>> THEN FALSE
    ELSE IF a = <<>> THEN TRUE
    ELSE IF a[1] # b[1] THEN DigitVal(a[1]) < DigitVal(b[1])
    ELSE LexLess(Tail(a), Tail(b))

RawLess(kind, x, y) ==
    IF kind = "text" THEN LexLess(Numeral(x), Numeral(y)) ELSE x < y

\* sorts before: NaN goes last, ties keep their order
Before(kind, a, b) ==
    IF IsNull(a.d) THEN FALSE
    ELSE IF IsNull(b.d) THEN TRUE
    ELSE RawLess(kind, a.d.val, b.d.val)

RECURSIVE InsertBar(_, _, _)
InsertBar(kind, sorted, r) ==
    IF sorted = <<>> THEN <<r>>
    ELSE IF Before(kind, r, Head(sorted)) THEN <<r>> \o sorted
    ELSE <<Head(sorted)>> \o InsertBar(kind, Tail(sorted), r)

RECURSIVE SortFrom(_, _, _, _)
SortFrom(kind, rows, i, acc) ==
    IF i > Len(rows) THEN acc
    ELSE SortFrom(kind, rows, i + 1, InsertBar(kind, acc, rows[i]))

\* df.sort_values('Date')
sort_values(kind, rows) == SortFrom(kind, rows, 1, <<>>)

\* df.ffill(): a null cell takes the last value above it
RECURSIVE FillDown(_, _, _)
FillDown(rows, i, acc) ==
    IF i > Len(rows) THEN acc
    ELSE LET prev == IF acc = <<>> THEN rows[i] ELSE acc[Len(acc)]
             r == rows[i]
         IN  FillDown(rows, i + 1,
                Append(acc, Bar(IF IsNull(r.d) THEN prev.d ELSE r.d,
                                IF IsNull(r.v) THEN prev.v ELSE r.v)))

Reverse(sq) == [i \in 1..Len(sq) |-> sq[Len(sq) + 1 - i]]

ffill(rows) == FillDown(rows, 1, <<>>)

\* df.bfill()
bfill(rows) == Reverse(FillDown(Reverse(rows), 1, <<>>))

\* df.dropna()
dropna(rows) == SelectSeq(rows, LAMBDA r : ~IsNull(r.d) /\ ~IsNull(r.v))

\* df.replace([np.inf, -np.inf], None)
ReplaceInf(c) == IF c.kind \in {"inf", "-inf"} THEN NoneCell ELSE c

\* clean_data(df); pd.to_datetime(df['Date']) leaves the rows where they are
CleanFrame(df) ==
    LET rows == dropna(bfill(ffill(sort_values(df.kind, df.rows))))
    IN  [df EXCEPT !.rows = [i \in 1..Len(rows) |->
                                Bar(ReplaceInf(rows[i].d), ReplaceInf(rows[i].v))],
                   !.kind = "timestamp"]

InitNorm ==
    /\ downloaded \in {<<>>} \cup {<<f>> : f \in Frames}
    /\ stock_df = <<>>
    /\ npc = "download"
    /\ nres = "pending"

NormKeeps == <<prog, crawlVars, scrollVars, storeVars, pipeVars, parseVars,
               extractVars, mainVars, extraVars, downloaded>>

\* download_ticker_data: None when the download raised or gave no rows
Download ==
    /\ prog = "normalize"
    /\ npc = "download"
    /\ IF downloaded = <<>> \/ IsEmpty(downloaded[1])
       THEN npc' = "returned" /\ nres' = "None" /\ UNCHANGED stock_df
       ELSE npc' = "standardize" /\ stock_df' = downloaded /\ UNCHANGED nres
    /\ UNCHANGED NormKeeps

\* standardize_column_names, then validate_data
StandardizeAndValidate ==
    /\ prog = "normalize"
    /\ npc = "standardize"
    /\ LET df == standardize_column_names(stock_df[1])
       IN  /\ stock_df' = <<df>>
           /\ IF validate_data(df)
              THEN npc' = "reset_index" /\ UNCHANGED nres
              ELSE npc' = "returned" /\ nres' = "None"
    /\ UNCHANGED NormKeeps

ResetIndex ==
    /\ prog = "normalize"
    /\ npc = "reset_index"
    /\ IF ResetRaises(stock_df[1])
       THEN npc' = "returned" /\ nres' = "raised" /\ UNCHANGED stock_df
       ELSE npc' = "clean" /\ stock_df' = <<reset_index(stock_df[1])>>
                           /\ UNCHANGED nres
    /\ UNCHANGED NormKeeps

\* clean_data, stock_df['Ticker'] = ticker, return stock_df
CleanAndReturn ==
    /\ prog = "normalize"
    /\ npc = "clean"
    /\ stock_df' = <<[CleanFrame(stock_df[1]) EXCEPT !.extra = @ \cup {"Ticker"}]>>
    /\ npc' = "returned"
    /\ nres' = "frame"
    /\ UNCHANGED NormKeeps

NormNext ==
    \/ Download
    \/ StandardizeAndValidate
    \/ ResetIndex
    \/ CleanAndReturn

(***************************************************************************)
(* The entry points: main and run_scraping_pipeline.                       *)
(***************************************************************************)
InitMain ==
    /\ pipeline \in {"main", "scraping"}
    /\ work \in 1..MaxWork
    /\ anyFailed \in BOOLEAN
    /\ mpc = "connect"
    /\ conn = "none"
    /\ mlog = <<>>
    /\ mret = "pending"

MainKeeps == <<prog, crawlVars, scrollVars, storeVars, pipeVars, parseVars,
               extractVars, normVars, extraVars, pipeline, anyFailed>>

\* what follows a successful create_mongodb_manager inside the first try
AfterConnect(p) == IF p = "scraping" THEN "embedding" ELSE "work"

\* create_mongodb_manager: connected, or ConnectionError and return 1
Connect ==
    /\ prog = "entry"
    /\ mpc = "connect"
    /\ \/ /\ conn' = "open"
          /\ mlog' = Append(mlog, "connect")
          /\ mpc' = AfterConnect(pipeline)
          /\ UNCHANGED mret
       \/ /\ mpc' = "exited"
          /\ mret' = "1"
          /\ UNCHANGED <<conn, mlog>>
    /\ UNCHANGED <<MainKeeps, work>>

\* db_manager.init_embedding_model, still in the first try block, whose only
\* handler is `except ConnectionError: return 1'
InitEmbedding ==
    /\ prog = "entry"
    /\ mpc = "embedding"
    /\ \/ mpc' = "work" /\ UNCHANGED mret
       \/ mpc' = "exited" /\ mret' = "1"
       \/ mpc' = "exited" /\ mret' = "raised"
    /\ UNCHANGED <<MainKeeps, work, conn, mlog>>

\* the return code at the end of the try block
ReturnCode(p, f) == IF p = "main" /\ f THEN "1" ELSE "0"

\* one step of the second try block: processing, crawling, storing
Work ==
    /\ prog = "entry"
    /\ mpc = "work"
    /\ work > 0
    /\ \/ /\ work' = work - 1
          /\ mlog' = Append(mlog, "step")
          /\ UNCHANGED <<mpc, mret>>
       \/ \* except Exception: return 1
          /\ mlog' = Append(mlog, "except")
          /\ mret' = "1"
          /\ mpc' = "finally"
          /\ UNCHANGED work
    /\ UNCHANGED <<MainKeeps, conn>>

\* return 0 (main: 1 when a ticker failed)
WorkDone ==
    /\ prog = "entry"
    /\ mpc = "work"
    /\ work = 0
    /\ mret' = ReturnCode(pipeline, anyFailed)
    /\ mpc' = "finally"
    /\ UNCHANGED <<MainKeeps, work, conn, mlog>>

\* finally: db_manager.disconnect()
Disconnect ==
    /\ prog = "entry"
    /\ mpc = "finally"
    /\ conn' = "closed"
    /\ mlog' = Append(mlog, "disconnect")
    /\ mpc' = "exited"
    /\ UNCHANGED <<MainKeeps, work, mret>>

MainNext ==
    \/ Connect
    \/ InitEmbedding
    \/ Work
    \/ WorkDone
    \/ Disconnect

(***************************************************************************)
(* Specifications: one per program.  The variables of the programs that do *)
(* not run keep their idle values.                                         *)
(***************************************************************************)
IdleCrawl ==
    /\ tickers = <<>>
    /\ max_pages = 1
    /\ ti = 1
    /\ cpc = "idle"
    /\ page = 0
    /\ content = "unset"
    /\ all_articles = <<>>
    /\ results = EmptyDict
    /\ events = <<>>
    /\ crawled = <<>>
    /\ outcome = <<>>

IdleScroll ==
    /\ ytickers = <<>>
    /\ target_days = 0
    /\ max_scrolls = 0
    /\ exact_day_only = FALSE
    /\ feed = {}
    /\ yi = 1
    /\ ypc = "idle"
    /\ driver = "none"
    /\ attempt = 0
    /\ scroll = 0
    /\ rendered = <<>>
    /\ target_found = FALSE
    /\ news_items = <<>>
    /\ all_news = EmptyDict
    /\ ylog = <<>>
    /\ ycrawled = <<>>
    /\ youtcome = <<>>

IdleStore ==
    /\ store = <<>>
    /\ data = <<>>
    /\ batch_size = 1
    /\ nextId = 1
    /\ priorIds = {}
    /\ calls = 0
    /\ firstContents = <<>>
    /\ InitWriterLocals

IdlePipe ==
    /\ ctickers = <<>>
    /\ ppc = "idle"
    /\ pi = 1
    /\ td_keys = <<>>
    /\ ticker_data = EmptyDict
    /\ successful = <<>>
    /\ failed = <<>>
    /\ details = {}
    /\ coll = [t \in ConfigSymbols |-> "prior"]

IdleParse ==
    /\ time_text = [isText |-> TRUE, chars |-> <<>>]
    /\ label = [kind |-> "idle"]
    /\ now = 0
    /\ tpc = "idle"
    /\ parsed = NoDate

IdleExtract ==
    /\ soup = <<>>
    /\ xtarget = NoTarget
    /\ xexact = FALSE
    /\ xnow = 0
    /\ xi = 1
    /\ xout = <<>>
    /\ xlog = <<>>
    /\ xpc = "idle"

IdleNorm ==
    /\ downloaded = <<>>
    /\ stock_df = <<>>
    /\ npc = "idle"
    /\ nres = "pending"

IdleMain ==
    /\ pipeline = "main"
    /\ work = 0
    /\ anyFailed = FALSE
    /\ mpc = "idle"
    /\ conn = "none"
    /\ mlog = <<>>
    /\ mret = "pending"

IdleFetch ==
    /\ max_retries = 0
    /\ fattempt = 0
    /\ fpc = "idle"
    /\ flog = <<>>
    /\ fret = "pending"

IdleNews ==
    /\ scraped_data = <<>>
    /\ spos = 1
    /\ apos = 0
    /\ news = <<>>
    /\ total_articles = 0
    /\ gfail = 0
    /\ gpc = "idle"
    /\ gret = -1

IdleColumns ==
    /\ columns = [multi |-> FALSE, cols |-> <<>>]
    /\ kpc = "idle"
    /\ kout = <<>>

IdleExtra == IdleFetch /\ IdleNews /\ IdleColumns

IdleOther == IdleParse /\ IdleExtract /\ IdleNorm /\ IdleMain /\ IdleExtra

\* the programs of the first part of the model are idle
IdleFirst == IdleCrawl /\ IdleScroll /\ IdleStore /\ IdlePipe

InitPaginated ==
    /\ prog = "paginated"
    /\ InitCrawl
    /\ IdleScroll /\ IdleStore /\ IdlePipe /\ IdleOther

SpecCrawl == InitPaginated /\ [][CrawlNext]_vars

InitScrollOne ==
    /\ prog = "scroll"
    /\ IdleCrawl /\ IdleStore /\ IdlePipe /\ IdleOther
    /\ InitScroll
    /\ Len(ytickers) = 1

SpecScroll == InitScrollOne /\ [][ScrollNext]_vars

\* scrape_multiple_yahoo_tickers calls scrape_yahoo_finance_news(ticker,
\* target_days, headless=True): the scroll budget and the filter mode are the
\* defaults; the site serves stories without a time label
InitScrollMany ==
    /\ prog = "scroll"
    /\ IdleCrawl
    /\ IdleStore
    /\ IdlePipe
    /\ IdleOther
    /\ ytickers \in SeqsUpTo(Symbols, MaxTickers)
    /\ target_days = 0
    /\ max_scrolls = MaxScrolls
    /\ exact_day_only = FALSE
    /\ feed = {Item(FALSE, TRUE, TRUE, NoLabel)}
    /\ InitScrollState

InitWriter ==
    /\ prog = "store"
    /\ IdleCrawl /\ IdleScroll /\ IdlePipe /\ IdleOther
    /\ InitStore

InitPipeline ==
    /\ prog = "pipeline"
    /\ IdleCrawl /\ IdleScroll /\ IdleStore /\ IdleOther
    /\ InitPipe

SpecPipeline == InitPipeline /\ [][PipeNext]_vars

SpecStore == InitWriter /\ [][StoreNext]_vars

InitParser ==
    /\ prog = "parse"
    /\ IdleFirst /\ IdleExtract /\ IdleNorm /\ IdleMain /\ IdleExtra
    /\ InitParse

InitExtractor ==
    /\ prog = "extract"
    /\ IdleFirst /\ IdleParse /\ IdleNorm /\ IdleMain /\ IdleExtra
    /\ InitExtract

InitNormalizer ==
    /\ prog = "normalize"
    /\ IdleFirst /\ IdleParse /\ IdleExtract /\ IdleMain /\ IdleExtra
    /\ InitNorm

InitEntry ==
    /\ prog = "entry"
    /\ IdleFirst /\ IdleParse /\ IdleExtract /\ IdleNorm /\ IdleExtra
    /\ InitMain

SpecMain == InitEntry /\ [][MainNext]_vars

SpecNormalize == InitNormalizer /\ [][NormNext]_vars

SpecExtract == InitExtractor /\ [][ExtractNext]_vars

SpecParse == InitParser /\ [][ParseNext]_vars

InitTickers == InitPaginated \/ InitScrollMany

TickersNext == CrawlNext \/ ScrollNext

SpecTickers == InitTickers /\ [][TickersNext]_vars

(***************************************************************************)
(* Claims about the paginated crawl.                                       *)
(***************************************************************************)
Requests == SelectSeq(events, LAMBDA e : e.kind = "req")

EmptyNumbered(i) ==
    events[i].kind = "ext" /\ events[i].page >= 1 /\ events[i].n = 0

\* C1: the crawl of one ticker requests the base page (0) first and then the
\* pages 1, 2, ... in increasing order, never beyond max_pages; no request
\* follows the first numbered page that yielded zero articles; page k+1 is
\* requested only after the articles of page k were extracted; a crawl that
\* met no empty numbered page has requested every page up to max_pages.
C1_PageOrder ==
    prog = "paginated" =>
        /\ \A k \in 1..Len(Requests) :
              Requests[k].page = k - 1 /\ Requests[k].page <= max_pages
        /\ \A i, j \in DOMAIN events :
              (i < j /\ EmptyNumbered(i)) => events[j].kind # "req"
        /\ \A j \in DOMAIN events :
              (events[j].kind = "req" /\ events[j].page >= 1) =>
                 \E i \in 1..(j - 1) :
                    events[i].kind = "ext" /\ events[i].page = events[j].page - 1
        /\ (cpc = "finish" /\ \A i \in DOMAIN events : ~EmptyNumbered(i)) =>
              Len(Requests) = max_pages + 1

\* max_pages = 3, the base page had articles and page 1 had none: the crawl
\* is over with pages 2 and 3 never requested
C1_Witness ==
    /\ prog = "paginated"
    /\ max_pages = 3
    /\ cpc = "finish"
    /\ \E i \in DOMAIN events : events[i] = Ev("ext", 0, MaxYield)
    /\ \E i \in DOMAIN events : events[i] = Ev("ext", 1, 0)
    /\ Len(Requests) = 2

(***************************************************************************)
(* Claims about the multi-ticker runs.                                     *)
(***************************************************************************)
\* no later crawl of the run stored under the same key
LastUnderKey(ts, done, i, K(_)) ==
    \A j \in (i + 1)..done : K(ts[j]) # K(ts[i])

AsGiven(t) == t

\* C2: a ticker whose crawl raised is recorded with an empty list (under its
\* upper-cased symbol in the paginated run, under the symbol as given in the
\* scroll run), the tickers after it are still crawled, and when the run
\* returns every requested ticker has an entry in the result.
C2_TickerIsolation ==
    /\ prog = "paginated" =>
        /\ \A i \in 1..Len(outcome) :
              /\ Upper(tickers[i]) \in DOMAIN results
              /\ (outcome[i] = "raised" /\ LastUnderKey(tickers, Len(outcome), i, Upper))
                    => results[Upper(tickers[i])] = <<>>
        /\ cpc = "returned" =>
              /\ crawled = tickers
              /\ Len(outcome) = Len(tickers)
              /\ DOMAIN results = {Upper(tickers[i]) : i \in 1..Len(tickers)}
    /\ prog = "scroll" =>
        /\ \A i \in 1..Len(youtcome) :
              /\ ytickers[i] \in DOMAIN all_news
              /\ (youtcome[i] = "failed" /\ LastUnderKey(ytickers, Len(youtcome), i, AsGiven))
                    => all_news[ytickers[i]] = <<>>
        /\ ypc = "returned" =>
              /\ ycrawled = ytickers
              /\ Len(youtcome) = Len(ytickers)
              /\ DOMAIN all_news = {ytickers[i] : i \in 1..Len(ytickers)}

\* the paginated run has returned; the crawl of its first ticker, given in
\* lower case, raised and the second ticker was crawled and has articles
C2_Witness ==
    /\ prog = "paginated"
    /\ cpc = "returned"
    /\ Len(tickers) = 2
    /\ tickers[1] = "aapl"
    /\ outcome = <<"raised", "ok">>
    /\ results["AAPL"] = <<>>
    /\ Upper(tickers[2]) # "AAPL"
    /\ results[Upper(tickers[2])] # <<>>

(***************************************************************************)
(* Claims about the scroll crawl of one symbol.                            *)
(***************************************************************************)
Has(log, e) == \E i \in DOMAIN log : log[i] = e

Loads == Count(ylog, "load_ok") + Count(ylog, "load_fail")

Quits == Count(ylog, "quit") + Count(ylog, "quit_fail")

\* scrape_yahoo_finance_news has handed its result to the caller
Returned == ypc \in {"return", "next_ticker", "returned"} /\ ycrawled # <<>>

\* C7: the page load is attempted at most 3 times; after the first attempt
\* that succeeds there is no further attempt and the crawl goes on to the
\* scroll loop; when all attempts fail there is no scroll and no extraction
\* and the crawl returns an empty list to its caller.
C7_LoadRetry ==
    prog = "scroll" =>
        /\ Loads <= 3
        /\ \A i, j \in DOMAIN ylog :
              (i < j /\ ylog[i] = "load_ok") => ylog[j] \notin {"load_ok", "load_fail"}
        /\ Has(ylog, "load_ok") => ypc # "load"
        /\ (ypc = "load" /\ ~Has(ylog, "load_ok")) => Loads < 3
        /\ (~Has(ylog, "load_ok") /\ ypc # "load") =>
              /\ ~Has(ylog, "scroll") /\ ~Has(ylog, "scroll_fail")
              /\ ~Has(ylog, "parse") /\ ~Has(ylog, "parse_fail")
              /\ ypc \notin {"scroll_check", "scroll_do", "parse"}
              /\ Returned => news_items = <<>>

\* three failed loads: the crawl has returned an empty list, the session is
\* released and nothing was scrolled or parsed
C7_Witness ==
    /\ prog = "scroll"
    /\ ypc = "return"
    /\ Count(ylog, "load_fail") = 3
    /\ news_items = <<>>
    /\ Has(ylog, "quit")

\* C8: a crawl scrolls at most max_scrolls times; when the budget is used up
\* without the stop pattern having been found the crawl is not failed: it
\* parses the page as rendered so far and returns extract_all_news of it
\* (unless the parse itself raises).
C8_ScrollBudget ==
    prog = "scroll" =>
        /\ Count(ylog, "scroll") + Count(ylog, "scroll_fail") <= max_scrolls
        /\ scroll <= max_scrolls
        /\ ( /\ Returned
             /\ Has(ylog, "load_ok")
             /\ ~target_found
             /\ Count(ylog, "scroll") = max_scrolls ) =>
              \/ /\ Has(ylog, "parse")
                 /\ ~Failed(ylog)
                 /\ news_items = extract_all_news(rendered, target_days, exact_day_only)
              \/ Has(ylog, "parse_fail")

\* the whole budget was scrolled without the pattern being found, and the
\* crawl returned the stories of the page
C8_Witness ==
    /\ prog = "scroll"
    /\ ypc = "return"
    /\ max_scrolls = MaxScrolls
    /\ Count(ylog, "scroll") = max_scrolls
    /\ ~target_found
    /\ ~Failed(ylog)
    /\ Len(news_items) = MaxItems

\* C9: a session that was created is quit exactly once before the crawl
\* returns, whatever failed in between; quit is never called without a
\* session or twice; a quit that raises still lets the crawl return.
C9_DriverReleased ==
    prog = "scroll" =>
        /\ Quits <= 1
        /\ Quits = 1 => Has(ylog, "create_ok")
        /\ (Returned /\ Has(ylog, "create_ok")) => (Quits = 1 /\ driver = "closed")
        /\ (Returned /\ ~Has(ylog, "create_ok")) => driver = "none"
        /\ Has(ylog, "quit_fail") => Returned
        /\ ypc \in {"next_ticker", "create", "load", "scroll_check", "scroll_do",
                    "parse", "except", "finally", "return", "returned"}

\* the scroll raised, the crawl went through its except branch, quit raised
\* as well, and the crawl returned
C9_Witness ==
    /\ prog = "scroll"
    /\ ypc = "return"
    /\ Has(ylog, "scroll_fail")
    /\ Has(ylog, "quit_fail")
    /\ news_items = <<>>

(***************************************************************************)
(* Claims about the bulk store writer.                                     *)
(***************************************************************************)
\* the stored document is the given record, a NaN being stored as null
SameRecord(stored, given) ==
    /\ stored.Date = given.Date
    /\ \A f \in Fields : stored[f] = (IF given[f] = "NaN" THEN "null" ELSE given[f])

StoredIsGiven ==
    /\ Len(store) = Len(data)
    /\ \A k \in DOMAIN store : SameRecord(store[k].rec, data[k])

DeleteBeforeInsert ==
    \A j \in DOMAIN wlog :
       wlog[j] = "insert" => \E i \in 1..(j - 1) : wlog[i] = "delete"

Idempotent ==
    (calls = 2 /\ wpc = "done" /\ firstContents # <<>>) =>
        Recs(store) = firstContents[1]

\* C3 as stated, for any batch_size: after a call that completed without
\* error the collection holds exactly the given records and none of the
\* documents it held before.
C3_Original ==
    prog = "store" =>
        /\ wpc = "done" => (StoredIsGiven /\ Ids(store) \cap priorIds = {})
        /\ DeleteBeforeInsert
        /\ Idempotent

\* C3, amended: for batch_size >= 1, after a call that completed without
\* error the collection holds exactly the given records and none of the
\* documents it held before; the delete is issued before the first insert;
\* a second call with the same records leaves the contents of the first.
C3_ReplaceAll ==
    prog = "store" =>
        /\ (wpc = "done" /\ batch_size >= 1) =>
              (StoredIsGiven /\ Ids(store) \cap priorIds = {})
        /\ wpc = "done" => Ids(store) \cap priorIds = {}
        /\ DeleteBeforeInsert
        /\ Idempotent

\* the second call with the same 5 records and batch_size 2 has completed on
\* a collection that held the documents of the first call
C3_Witness ==
    /\ prog = "store"
    /\ wpc = "done"
    /\ calls = 2
    /\ batch_size = 2
    /\ Len(data) = 5
    /\ priorIds # {}
    /\ firstContents # <<>>
    /\ Len(store) = 5

CeilDiv(n, b) == (n + b - 1) \div b

RECURSIVE Flatten(_)
Flatten(ss) == IF ss = <<>> THEN <<>> ELSE Head(ss) \o Flatten(Tail(ss))

Ended == wpc \in {"done", "raised"}

\* C4: for batch_size b >= 1 a call issues exactly ceil(n/b) insert calls,
\* every batch of b records but a possibly smaller last one, the batches
\* together being the records in input order, each once; the count returned
\* is n when the store accepted every document.
C4_Batching ==
    (prog = "store" /\ batch_size >= 1 /\ Ended) =>
        /\ Len(sent) = CeilDiv(Len(data), batch_size)
        /\ \A k \in DOMAIN sent :
              Len(sent[k]) = IF k < Len(sent) THEN batch_size
                             ELSE Len(data) - (k - 1) * batch_size
        /\ Flatten(sent) = clean_data
        /\ Len(clean_data) = Len(data)
        /\ (wpc = "done" /\ Len(store) = Len(data)) => total_inserted = Len(data)

NoNaN(doc) == \A f \in Fields : doc[f] # "NaN"

\* C5: no document handed to insert_many, and so no document of the
\* collection, holds NaN in any field; every record has been cleaned before
\* the first batch is sent.
C5_NoNaNSent ==
    prog = "store" =>
        /\ \A k \in DOMAIN sent : \A j \in DOMAIN sent[k] : NoNaN(sent[k][j])
        /\ \A k \in DOMAIN store :
              store[k].id \notin priorIds => NoNaN(store[k].rec)
        /\ sent # <<>> =>
              /\ Len(clean_data) = Len(data)
              /\ \A k \in DOMAIN clean_data : NoNaN(clean_data[k])

\* the Close of the third of five records was NaN; all three batches of two
\* were sent and the stored third document holds null
C5_Witness ==
    /\ prog = "store"
    /\ wpc = "done"
    /\ batch_size = 2
    /\ Len(data) = 5
    /\ data[3].Close = "NaN"
    /\ Len(sent) = 3
    /\ sent[2][1].Close = "null"

\* C6: when the store rejects documents of a batch, the call still sends
\* every later batch and returns the number of documents inserted over all
\* batches.
C6_ContinuesPastRejects ==
    (prog = "store" /\ batch_size >= 1 /\ Ended) =>
        /\ wpc = "done"
        /\ Len(sent) = CeilDiv(Len(data), batch_size)
        /\ total_inserted = Len(store)

(***************************************************************************)
(* Claims about the ticker data pipeline.                                  *)
(***************************************************************************)
Occurrences(sq, x) == Len(SelectSeq(sq, LAMBDA y : y = x))

Configured == {ctickers[i] : i \in DOMAIN ctickers}

\* C10: when process_and_store_ticker_data returns, every configured ticker
\* is once in exactly one of 'successful' and 'failed', whatever failed for
\* it, and the lists name configured tickers only; while the storing loop
\* runs, the same holds of the tickers it has handled.
C10_OneList ==
    prog = "pipeline" =>
        /\ ppc = "returned" =>
              /\ \A t \in Configured :
                    Occurrences(successful, t) + Occurrences(failed, t) = 1
              /\ \A i \in DOMAIN successful : successful[i] \in Configured
              /\ \A i \in DOMAIN failed : failed[i] \in Configured
        /\ ppc = "store" =>
              \A k \in 1..(pi - 1) :
                 Occurrences(successful, td_keys[k]) + Occurrences(failed, td_keys[k]) = 1
        /\ \A t \in details : Contains(successful, t)

\* the run has returned: the storage of AAPL raised after the delete, MSFT
\* was stored; AAPL is listed as failed and MSFT as successful
C10_Witness ==
    /\ prog = "pipeline"
    /\ ppc = "returned"
    /\ ctickers = <<"AAPL", "MSFT">>
    /\ coll["AAPL"] = "partial"
    /\ failed = <<"AAPL">>
    /\ successful = <<"MSFT">>

(***************************************************************************)
(* Claims about parse_relative_time_to_date.                               *)
(***************************************************************************)
ClassRank(u) ==
    IF UnitClass(u) = "day" THEN 1 ELSE IF UnitClass(u) = "hour" THEN 2 ELSE 3

\* the calendar date of (now minus n units)
DateBefore(nw, n, u) == DateOf(nw - n * UnitMinutes(u))

\* C11: for every text '<n> <unit> ago', with the unit one of the eleven
\* unit words in either letter case, the function returns the date of now
\* minus n units; for a text holding phrases of two unit classes the phrase
\* of the class tried first (day, then hour, then minute) decides.
C11_RelativeTime ==
    (prog = "parse" /\ tpc = "returned") =>
        /\ (label.kind = "phrase" /\ label.spaced) =>
              parsed = DateBefore(now, label.n, label.unit)
        /\ label.kind = "two" =>
              parsed = IF ClassRank(label.unit) < ClassRank(label.unit2)
                       THEN DateBefore(now, label.n, label.unit)
                       ELSE DateBefore(now, label.n2, label.unit2)

\* some pattern of the three lists matches the text
Recognized(tt) ==
    /\ tt.isText
    /\ \E pats \in {day_patterns, hour_patterns, minute_patterns} :
          FirstMatch(Strip(Lower(tt.chars)), pats) # NoMatch

\* C12: for an argument that matches none of the day, hour and minute
\* patterns (an empty text, a text that is no relative time, a value that is
\* no text) the function returns today's date; it returns a date, not null,
\* for every argument.
C12_FallbackToday ==
    (prog = "parse" /\ tpc = "returned") =>
        /\ ~Recognized(time_text) => parsed = DateOf(now)
        /\ label.kind \in {"junk", "none"} => parsed = DateOf(now)
        /\ parsed # NoDate

\* the function was called with None and returned today's date
C12_Witness ==
    /\ prog = "parse"
    /\ tpc = "returned"
    /\ ~time_text.isText
    /\ now = FirstDay * MinutesPerDay + 90
    /\ parsed = FirstDay

(***************************************************************************)
(* Claims about the page extractor.                                        *)
(***************************************************************************)
\* the items extract_news_item was called for
Reached == {i \in DOMAIN xlog : xlog[i].reached}

\* C13: with a stop filter, an item that has a publishing line (and would be
\* emitted without the filter) is left out exactly when its age in days is
\* >= target_days, or != target_days in exact mode; with target_days = 2 in
\* exact mode ages 1 and 3 are left out and age 2 is kept.
C13_StopFilter ==
    (prog = "extract" /\ xtarget # NoTarget) =>
        \A i \in Reached :
            (soup[i].time.present /\ xlog[i].plain) =>
                /\ xlog[i].kept =
                      ~(IF xexact THEN xlog[i].delta # xtarget
                                  ELSE xlog[i].delta >= xtarget)
                /\ (xexact /\ xtarget = 2) =>
                      /\ xlog[i].delta \in {1, 3} => ~xlog[i].kept
                      /\ xlog[i].delta = 2 => xlog[i].kept

\* target_days = 2 in exact mode: of a two-day-old and a three-day-old story
\* the first one only is returned
C13_Witness ==
    /\ prog = "extract"
    /\ xpc = "returned"
    /\ xtarget = 2
    /\ xexact
    /\ soup = <<Story(2), Story(3)>>
    /\ Len(xout) = 1
    /\ xout[1].timestamp = DayLabel(2)
    /\ xlog[2].delta = 3

\* the headline of the item is there and is not empty after trimming
Titled(item) == item.title.present /\ Strip(item.title.chars) # <<>>

\* C14: with no stop filter extract_news_item emits an item exactly when
\* it has a headline that is not empty after trimming, whether or not a link
\* or a publishing line is found in it, and every emitted URL is absolute.
C14_HeadlineOnly ==
    (prog = "extract" /\ xtarget = NoTarget) =>
        /\ \A i \in Reached : xlog[i].kept = Titled(soup[i])
        /\ \A k \in DOMAIN xout :
              "url" \in xout[k].keys => xout[k].url \in {"absolute", "based"}

\* the items a record is due for: no advertisement, with a title
RECURSIVE Due(_, _)
Due(items, i) ==
    IF i > Len(items) THEN <<>>
    ELSE (IF ~IsAd(items[i]) /\ Titled(items[i]) THEN <<i>> ELSE <<>>)
            \o Due(items, i + 1)

\* C15: with no stop filter extract_all_news returns no record for an
\* advertisement and exactly one record, in page order, for every other item
\* with a title: it carries the trimmed title, the given ticker and the date
\* its time label resolves to.
C15_OneRecordPerStory ==
    (prog = "extract" /\ xpc = "returned" /\ xtarget = NoTarget) =>
        LET due == Due(soup, 1)
        IN  /\ Len(xout) = Len(due)
            /\ \A k \in DOMAIN xout :
                  k <= Len(due) =>
                     LET item == soup[due[k]]
                     IN  /\ xout[k].title = Strip(item.title.chars)
                         /\ xout[k].tickers = GivenSymbol
                         /\ item.time.present =>
                               xout[k].date = parse_relative_time_to_date(
                                   [isText |-> TRUE,
                                    chars |-> TimestampText(item.time.chars)],
                                   xlog[due[k]].clock)

\* the publishing line of the item is a recognised relative time
Stamped(item) ==
    /\ item.time.present
    /\ Recognized([isText |-> TRUE, chars |-> TimestampText(item.time.chars)])

\* C20: every record the extractor emits has a date, never null; the record
\* of an item whose publishing line is missing or is no recognised relative
\* time is dated today.
C20_AlwaysDated ==
    prog = "extract" =>
        /\ \A k \in DOMAIN xout :
              "date" \in xout[k].keys /\ xout[k].date # NoDate
        /\ \A i \in DOMAIN xlog :
              (Len(soup) = 1 /\ xlog[i].kept /\ ~Stamped(soup[i])) =>
                  /\ "date" \in xout[1].keys
                  /\ xout[1].date = DateOf(xlog[i].clock)

(***************************************************************************)
(* Claims about the normalizer.                                            *)
(***************************************************************************)
\* the call has returned or raised
NormDone == prog = "normalize" /\ npc = "returned"

C17_SortedFinite ==
    (NormDone /\ nres = "frame") =>
        LET rows == stock_df[1].rows
        IN  /\ \A i \in 1..(Len(rows) - 1) : rows[i].d.val <= rows[i + 1].d.val
            /\ \A i \in DOMAIN rows :
                  /\ ~IsNull(rows[i].d)
                  /\ rows[i].d.kind \notin {"inf", "-inf"}
                  /\ rows[i].v.kind \notin {"inf", "-inf"}

\* C18: the normalizer returns None, and does not raise, whenever the frame
\* is empty at some step: as downloaded, or after dropna has removed every
\* row; it never returns a frame without rows.
C18_EmptyIsInvalid ==
    NormDone =>
        /\ nres # "raised"
        /\ (downloaded # <<>> /\ IsEmpty(downloaded[1])) => nres = "None"
        /\ nres = "frame" => ~IsEmpty(stock_df[1])

(***************************************************************************)
(* Claims about the entry points.                                          *)
(***************************************************************************)
\* C19: when main or run_scraping_pipeline has returned or raised after a
\* successful connect, disconnect has been called exactly once, on every
\* path; it is never called before the work is over.
C19_DisconnectOnce ==
    prog = "entry" =>
        /\ (mpc = "exited" /\ Has(mlog, "connect")) =>
              /\ Count(mlog, "disconnect") = 1
              /\ conn = "closed"
        /\ Count(mlog, "disconnect") <= 1
        /\ \A i \in DOMAIN mlog :
              mlog[i] = "disconnect" => i = Len(mlog)

(***************************************************************************)
(* Further claims about the scroll crawl.                                  *)
(***************************************************************************)
\* the stop pattern is in the page as rendered now
PatternPresent == check_target_days(rendered, StopArg(target_days))

\* C21: the page is checked for the stop pattern after each scroll, so the
\* scroll loop ends as budget-exhausted (target_found false) only when the
\* pattern is absent from the page the loop ends with, and as target-reached
\* whenever a scroll within the budget has brought the pattern in.
C21_CheckAfterScroll ==
    (prog = "scroll" /\ ypc = "parse") =>
        /\ target_found => PatternPresent
        /\ ~target_found => ~PatternPresent

(***************************************************************************)
(* fetch_page / fetch_page_content: the retry loop of one page request.    *)
(***************************************************************************)
MaxRetries == 3

\* the statuses after which the loop says `continue'
RetryStatuses == {"401", "403", "429"}

\* statuses for which raise_for_status raises HTTPError
ErrorStatuses == {"404", "500"}

\* what session.get can give: a status, or a RequestException ("timeout")
Responses == {"200", "204", "timeout"} \cup RetryStatuses \cup ErrorStatuses

\* the except clause returns None on the last attempt only
GivesUp(a, n) == a = n - 1

InitFetch ==
    /\ max_retries \in 0..MaxRetries
    /\ fattempt = 0
    /\ fpc = "loop"
    /\ flog = <<>>
    /\ fret = "pending"

FetchKeeps == <<prog, crawlVars, scrollVars, storeVars, pipeVars, parseVars,
                extractVars, normVars, mainVars, newsVars, colVars,
                max_retries>>

\* one iteration of `for attempt in range(max_retries)'
FetchAttempt ==
    /\ prog = "fetch"
    /\ fpc = "loop"
    /\ fattempt < max_retries
    /\ \E r \in Responses :
        /\ flog' = Append(flog, [status |-> r, slept |-> fattempt > 0])
        /\ IF r = "200"
           THEN fret' = "content" /\ fpc' = "done" /\ fattempt' = fattempt
           ELSE IF r \in ErrorStatuses \cup {"timeout"}
                   /\ GivesUp(fattempt, max_retries)
           THEN fret' = "None" /\ fpc' = "done" /\ fattempt' = fattempt
           ELSE fret' = fret /\ fpc' = fpc /\ fattempt' = fattempt + 1
    /\ UNCHANGED FetchKeeps

\* the loop is over: return None
FetchExhausted ==
    /\ prog = "fetch"
    /\ fpc = "loop"
    /\ fattempt >= max_retries
    /\ fret' = "None"
    /\ fpc' = "done"
    /\ UNCHANGED <<FetchKeeps, fattempt, flog>>

FetchNext == FetchAttempt \/ FetchExhausted

InitFetcher ==
    /\ prog = "fetch"
    /\ IdleFirst /\ IdleParse /\ IdleExtract /\ IdleNorm /\ IdleMain
    /\ IdleNews /\ IdleColumns
    /\ InitFetch

SpecFetch == InitFetcher /\ [][FetchNext]_vars

\* C22: a fetch makes at most max_retries attempts, returns the body of the
\* first 200 response, makes another attempt after 401, 403 or 429 while
\* attempts remain, ends at once with no content on any other non-200 status,
\* and never raises to its caller.
C22_FetchRetry ==
    prog = "fetch" =>
        /\ Len(flog) <= max_retries
        /\ fret = "content" <=>
               (flog # <<>> /\ flog[Len(flog)].status = "200")
        /\ \A i \in 1..Len(flog) :
               /\ flog[i].status = "200" => i = Len(flog)
               /\ flog[i].status \in ErrorStatuses \cup {"204"} =>
                      i = Len(flog) /\ fret = "None"
               /\ (flog[i].status \in RetryStatuses /\ i < max_retries
                   /\ fpc = "done") => i < Len(flog)
        /\ fret # "raised"

\* the page shows a label of exactly n days
HasAge(html, n) == \E i \in DOMAIN html : html[i].age = n

\* the day number the scroll loop looks for
Sought == IF target_days = 0 THEN 1 ELSE target_days + 1

\* C27: check_target_days(html, N), N >= 1, is true only if the page shows a
\* day label whose number is exactly N; a label whose digits merely end in N
\* does not make it true, and the scroll loop stops early only on a label of
\* the age it looks for.
C27_ExactDayLabel ==
    prog = "scroll" =>
        /\ \A n \in 1..(MaxTarget + 1) :
               check_target_days(rendered, n) => HasAge(rendered, n)
        /\ (ypc = "parse" /\ target_found) => HasAge(rendered, Sought)

\* a story the extractor looks at: titled, about the symbol, no advertisement
IsStory(it) == ~it.ad /\ it.sym /\ it.title

\* C30: with target_days = 0 and exact_day_only = false every item that
\* carries a time label is excluded, its age in days being >= 0, so the
\* crawl returns only items without a time label, whatever the page holds.
C30_OnlyUnlabelled ==
    (prog = "scroll" /\ target_days = 0 /\ ~exact_day_only) =>
        \A k \in DOMAIN news_items : news_items[k].age = NoLabel

\* the crawl has returned from a page that showed a story published today
\* and a story without a time label: only the latter is in the result
C30_Witness ==
    /\ prog = "scroll"
    /\ ypc = "return"
    /\ target_days = 0
    /\ ~exact_day_only
    /\ Has(ylog, "parse")
    /\ \E i \in DOMAIN rendered : IsStory(rendered[i]) /\ rendered[i].age = 0
    /\ Len(news_items) = 1
    /\ news_items[1].age = NoLabel

(***************************************************************************)
(* Further claims about the paginated crawl.                               *)
(***************************************************************************)
\* the fetch of the current page gave no content and pages remain
FetchFailed == prog = "paginated" /\ cpc = "extract" /\ content = "none"

\* C23: a page whose fetch yields no content costs only that page: the crawl
\* goes on to request the next page, for the base page and for every numbered
\* page below max_pages.
C23_FetchFailureContained ==
    [][(FetchFailed /\ page < max_pages) =>
           (cpc' = "fetch" /\ page' = page + 1)]_vars

\* C24: between two successive page requests of a ticker's crawl, where the
\* earlier page yielded articles, the crawl waits DELAY: a request that follows
\* an article-yielding page, the base page included, is preceded by a delay.
C24_DelayBetweenRequests ==
    prog = "paginated" =>
        \A i \in 2..Len(events) :
            (events[i].kind = "req" /\ \E j \in 1..(i - 1) :
                /\ events[j].kind = "ext"
                /\ events[j].page = events[i].page - 1
                /\ events[j].n > 0)
            => events[i - 1].kind = "delay"

(***************************************************************************)
(* run_scraping_pipeline: storing the scraped articles, ticker by ticker.  *)
(***************************************************************************)
MaxArticles == 2

\* scraped_data.items(): one entry per ticker, in insertion order
ScrapedSets ==
    {sd \in SeqsUpTo([ticker : ConfigSymbols, articles : 0..MaxArticles],
                     MaxTickers) :
        \A i, j \in 1..Len(sd) : sd[i].ticker = sd[j].ticker => i = j}

InitNews ==
    /\ scraped_data \in ScrapedSets
    /\ spos = 1
    /\ apos = 0
    /\ news = <<>>
    /\ total_articles = 0
    /\ gfail = 0
    /\ gpc = "loop"
    /\ gret = -1

NewsKeeps == <<prog, crawlVars, scrollVars, storeVars, pipeVars, parseVars,
               extractVars, normVars, mainVars, fetchVars, colVars,
               scraped_data>>

\* `if articles:' is false: nothing to store for this ticker
SkipEmptyTicker ==
    /\ prog = "news"
    /\ gpc = "loop"
    /\ spos <= Len(scraped_data)
    /\ scraped_data[spos].articles = 0
    /\ spos' = spos + 1
    /\ UNCHANGED <<NewsKeeps, apos, news, total_articles, gfail, gpc, gret>>

\* prepare_article_for_storage and create_document('news', ...) succeed
StoreArticle ==
    /\ prog = "news"
    /\ gpc = "loop"
    /\ spos <= Len(scraped_data)
    /\ apos < scraped_data[spos].articles
    /\ news' = Append(news, scraped_data[spos].ticker)
    /\ total_articles' = total_articles + 1
    /\ IF apos + 1 = scraped_data[spos].articles
       THEN spos' = spos + 1 /\ apos' = 0
       ELSE spos' = spos /\ apos' = apos + 1
    /\ UNCHANGED <<NewsKeeps, gfail, gpc, gret>>

\* the embedding or the insert raises: except Exception: return 1
StoreArticleRaises ==
    /\ prog = "news"
    /\ gpc = "loop"
    /\ spos <= Len(scraped_data)
    /\ apos < scraped_data[spos].articles
    /\ gfail' = spos
    /\ gret' = 1
    /\ gpc' = "done"
    /\ UNCHANGED <<NewsKeeps, spos, apos, news, total_articles>>

\* the loop over the tickers is exhausted: return 0
NewsStored ==
    /\ prog = "news"
    /\ gpc = "loop"
    /\ spos > Len(scraped_data)
    /\ gret' = 0
    /\ gpc' = "done"
    /\ UNCHANGED <<NewsKeeps, spos, apos, news, total_articles, gfail>>

NewsNext ==
    SkipEmptyTicker \/ StoreArticle \/ StoreArticleRaises \/ NewsStored

InitNewsStoring ==
    /\ prog = "news"
    /\ IdleFirst /\ IdleParse /\ IdleExtract /\ IdleNorm /\ IdleMain
    /\ IdleFetch /\ IdleColumns
    /\ InitNews

SpecNews == InitNewsStoring /\ [][NewsNext]_vars

\* how many documents of the news collection belong to ticker t
StoredFor(t) == Cardinality({k \in 1..Len(news) : news[k] = t})

\* C25: storage is failure-isolated per ticker: when the storing of one
\* ticker's articles fails, every other ticker of the run, the ones after the
\* failing one included, has all its articles stored when the run has ended.
C25_StorageIsolated ==
    (prog = "news" /\ gpc = "done") =>
        \A i \in 1..Len(scraped_data) :
            i # gfail =>
                StoredFor(scraped_data[i].ticker) = scraped_data[i].articles

(***************************************************************************)
(* standardize_column_names, on the column headers of a frame.  A name is  *)
(* a sequence of characters; a header is <<field, ticker>>, the ticker     *)
(* level being used only when the columns are a MultiIndex.                *)
(***************************************************************************)
MaxCols == 2

Minuscules == <<"a", "b", "c", "d", "e", "f", "g", "h", "i", "j", "k", "l", "m", "n", "o", "p", "q", "r", "s", "t", "u", "v", "w", "x", "y", "z">>

Capitals == <<"A", "B", "C", "D", "E", "F", "G", "H", "I", "J", "K", "L", "M", "N", "O", "P", "Q", "R", "S", "T", "U", "V", "W", "X", "Y", "Z">>

IsSmall(c) == \E i \in DOMAIN Minuscules : Minuscules[i] = c

IsCapital(c) == \E i \in DOMAIN Capitals : Capitals[i] = c

SmallOf(c) ==
    IF IsCapital(c)
    THEN Minuscules[CHOOSE i \in DOMAIN Capitals : Capitals[i] = c]
    ELSE c

CapitalOf(c) ==
    IF IsSmall(c)
    THEN Capitals[CHOOSE i \in DOMAIN Minuscules : Minuscules[i] = c]
    ELSE c

\* str.title: a cased character is upper case at the start of a word (after
\* an uncased character or at the start) and lower case elsewhere
Title(t) ==
    [i \in 1..Len(t) |->
        IF i = 1 \/ ~(IsSmall(t[i - 1]) \/ IsCapital(t[i - 1]))
        THEN CapitalOf(t[i]) ELSE SmallOf(t[i])]

\* str.strip('_')
RECURSIVE StripUnderscores(_)
StripUnderscores(t) ==
    IF t = <<>> THEN t
    ELSE IF t[1] = "_" THEN StripUnderscores(Tail(t))
    ELSE IF t[Len(t)] = "_" THEN StripUnderscores(SubSeq(t, 1, Len(t) - 1))
    ELSE t

\* '_'.join(col).strip('_') for a two-level header
Flattened(h) == StripUnderscores(h[1] \o <<"_">> \o h[2])

DateName == <<"D", "a", "t", "e">>

expected_cols ==
    <<DateName, <<"O", "p", "e", "n">>, <<"H", "i", "g", "h">>,
      <<"L", "o", "w">>, <<"C", "l", "o", "s", "e">>, <<"V", "o", "l", "u", "m", "e">>>>

date_names ==
    <<DateName, <<"D", "a", "t", "e", "t", "i", "m", "e">>,
      <<"d", "a", "t", "e">>, <<"d", "a", "t", "e", "t", "i", "m", "e">>>>

InSeq(x, q) == \E i \in DOMAIN q : q[i] = x

\* the names after the MultiIndex has been flattened
FlatNames(c) ==
    [i \in DOMAIN c.cols |->
        IF c.multi THEN Flattened(c.cols[i]) ELSE c.cols[i][1]]

\* the first of date_columns that is among the names, <<>> when none is
DateCol(names) ==
    IF \E k \in DOMAIN date_names : InSeq(date_names[k], names)
    THEN date_names[CHOOSE k \in DOMAIN date_names :
             /\ InSeq(date_names[k], names)
             /\ \A j \in 1..(k - 1) : ~InSeq(date_names[j], names)]
    ELSE <<>>

\* df.rename(columns={date_col: 'Date'})
RenameDate(names) ==
    [i \in DOMAIN names |->
        IF DateCol(names) # <<>> /\ names[i] = DateCol(names)
        THEN DateName ELSE names[i]]

\* col if col in expected_cols else col.title()
StandardName(n) == IF InSeq(n, expected_cols) THEN n ELSE Title(n)

StandardizeNames(c) ==
    [i \in DOMAIN c.cols |-> StandardName(RenameDate(FlatNames(c))[i])]

\* the spellings of the fields a source delivers
FieldSpellings ==
    {DateName, <<"d", "a", "t", "e">>, <<"D", "a", "t", "e", "t", "i", "m", "e">>,
     <<"C", "l", "o", "s", "e">>, <<"c", "l", "o", "s", "e">>, <<"C", "L", "O", "S", "E">>,
     <<"O", "p", "e", "n">>, <<"V", "o", "l", "u", "m", "e">>}

TickerLevels == {<<>>, <<"A", "A", "P", "L">>}

\* frames with distinct headers: single-level ones and two-level ones
ColumnSets ==
    {c \in [multi : BOOLEAN,
            cols : SeqsUpTo(FieldSpellings \X TickerLevels, MaxCols)] :
        /\ \A i, j \in DOMAIN c.cols : c.cols[i] = c.cols[j] => i = j
        /\ ~c.multi => \A i \in DOMAIN c.cols : c.cols[i][2] = <<>>}

InitColumns ==
    /\ columns \in ColumnSets
    /\ kpc = "call"
    /\ kout = <<>>

StandardizeColumns ==
    /\ prog = "columns"
    /\ kpc = "call"
    /\ kout' = StandardizeNames(columns)
    /\ kpc' = "done"
    /\ UNCHANGED <<crawlVars, scrollVars, storeVars, pipeVars, parseVars,
                   extractVars, normVars, mainVars, fetchVars, newsVars,
                   prog, columns>>

ColumnsNext == StandardizeColumns

InitStandardizer ==
    /\ prog = "columns"
    /\ IdleFirst /\ IdleParse /\ IdleExtract /\ IdleNorm /\ IdleMain
    /\ IdleFetch /\ IdleNews
    /\ InitColumns

SpecColumns == InitStandardizer /\ [][ColumnsNext]_vars

\* str.lower
SmallName(t) == [i \in 1..Len(t) |-> SmallOf(t[i])]

\* the header names an OHLCV or date field, whatever its letter case
NamesField(h) ==
    \E k \in DOMAIN expected_cols \cup {0} :
        SmallName(h[1]) =
            SmallName(IF k = 0 THEN date_names[2] ELSE expected_cols[k])

\* C26: after standardization every OHLCV or date column is named from
\* {Date, Open, High, Low, Close, Volume} and no two columns share a name,
\* for single-level headers that differ from the canonical names in letter
\* case and for two-level headers (field, ticker).
C26_CanonicalNames ==
    (prog = "columns" /\ kpc = "done") =>
        /\ \A i \in DOMAIN kout :
               NamesField(columns.cols[i]) => InSeq(kout[i], expected_cols)
        /\ \A i, j \in DOMAIN kout : kout[i] = kout[j] => i = j

(***************************************************************************)
(* Further claims about the normalizer.                                    *)
(***************************************************************************)
\* the frame came as the download step builds it: rows, the dates in the
\* index and in no column
IndexDated(df) ==
    ~IsEmpty(df) /\ df.date = "none" /\ df.index \in {"Date", "Datetime"}

\* C28: a downloaded frame that carries its dates in the index is accepted:
\* the index becomes the Date column before 'Date' is validated, and the
\* normalizer returns a frame with a Date column.
C28_IndexDatedAccepted ==
    (NormDone /\ downloaded # <<>> /\ IndexDated(downloaded[1])) =>
        /\ nres = "frame"
        /\ stock_df[1].date = "Date"

(***************************************************************************)
(* Further claims about the bulk store writer.                             *)
(***************************************************************************)
\* the delete step of the current call has been executed
Deleted == prog = "store" /\ wpc # "call"

\* sq is the beginning of full
IsPrefix(sq, full) ==
    Len(sq) <= Len(full) /\ \A k \in DOMAIN sq : sq[k] = full[k]

\* the call has ended without having inserted the whole record set
EndedShort ==
    wpc = "raised" \/ (wpc = "done" /\ batch_size <= 0)

\* C29: at every point after the delete step the collection holds none of
\* the documents it held before the call and only documents of the batches
\* handed to the store so far, which are a prefix of the new record set; so a
\* call that ends because an insert raised or because batch_size is not
\* positive leaves the prior contents gone and at most a prefix of the new
\* batches in place.
C29_PriorGone ==
    Deleted =>
        /\ Ids(store) \cap priorIds = {}
        /\ \A k \in DOMAIN store :
               \E j \in DOMAIN Flatten(sent) : Flatten(sent)[j] = store[k].rec
        /\ Len(store) <= Len(Flatten(sent))
        /\ IsPrefix(Flatten(sent), [k \in DOMAIN data |-> CleanDoc(data[k])])
        /\ (EndedShort /\ batch_size <= 0) => store = <<>>

\* a call on a collection with prior documents ended on a BulkWriteError in
\* its second batch, with documents of the new set in place
C29_Witness ==
    /\ Deleted
    /\ EndedShort
    /\ werr = "BulkWriteError"
    /\ priorIds # {}
    /\ Len(sent) = 2
    /\ store # <<>>

====
